---- MODULE Spec2Model ----
(***************************************************************************)
(* Model of the schema-aware validation pipeline of odoo-mcp-chat:         *)
(*   - OdooSchemaCache            (src/src/rag/schema_cache.py)            *)
(*   - OdooValueValidator         (src/src/rag/validator.py)               *)
(*   - OdooAgent._normalize_domain_filters / _fix_invalid_operator         *)
(*                                (src/src/agent/langchain_agent.py)       *)
(*                                                                         *)
(* Python values are tagged records:                                       *)
(*   [k |-> "None"]                     None                               *)
(*   [k |-> "bool",  b |-> TRUE]        bool                               *)
(*   [k |-> "int",   i |-> 5]           int                                *)
(*   [k |-> "float", cls |-> "fin", num |-> 15, exp |-> 1]   float 1.5,    *)
(*                   i.e. num * 10^-exp, kept normalised; cls is "fin",    *)
(*                   "inf" or "nan" (num is the sign for "inf")            *)
(*   [k |-> "str",   s |-> "abc"]       str                                *)
(*   [k |-> "list",  items |-> <<..>>]  list                               *)
(*   [k |-> "tuple", items |-> <<..>>]  tuple                              *)
(*   [k |-> "dict",  kv |-> <<[key |-> "a", val |-> v], ..>>]  dict        *)
(*   [k |-> "datetime", y, mo, d, H, Mi, S]       datetime.datetime        *)
(***************************************************************************)
EXTENDS Integers, Sequences, FiniteSets, TLC

(***************************************************************************)
(* Python value constructors and primitives                                *)
(***************************************************************************)
PyNone == [k |-> "None"]

PyBool(b) == [k |-> "bool", b |-> b]

PyInt(n) == [k |-> "int", i |-> n]

\* a finite float num * 10^-exp in normal form: no trailing zero in the fraction
RECURSIVE PyFloat(_, _)
PyFloat(num, exp) ==
    IF exp > 0 /\ num % 10 = 0 THEN PyFloat(num \div 10, exp - 1)
    ELSE [k |-> "float", cls |-> "fin", num |-> num, exp |-> exp]

PyInf(sign) == [k |-> "float", cls |-> "inf", num |-> sign, exp |-> 0]

PyNaN == [k |-> "float", cls |-> "nan", num |-> 0, exp |-> 0]

PyStr(s) == [k |-> "str", s |-> s]

PyList(items) == [k |-> "list", items |-> items]

PyTuple(items) == [k |-> "tuple", items |-> items]

PyDict(kv) == [k |-> "dict", kv |-> kv]

KV(key, val) == [key |-> key, val |-> val]

IsNone(v) == v.k = "None"

IsStr(v) == v.k = "str"

\* isinstance(v, int): bool is a subclass of int in Python
IsInt(v) == v.k \in {"int", "bool"}

IsListOrTuple(v) == v.k \in {"list", "tuple"}

\* the integer an int-or-bool value denotes
IntOf(v) == IF v.k = "bool" THEN (IF v.b THEN 1 ELSE 0) ELSE v.i

\* Python truthiness, as used by `not x`, `x or y`, `if x and ...`
Truthy(v) ==
    CASE v.k = "None" -> FALSE
      [] v.k = "bool" -> v.b
      [] v.k = "int" -> v.i # 0
      [] v.k = "float" -> ~(v.cls = "fin" /\ v.num = 0)
      [] v.k = "str" -> Len(v.s) > 0
      [] v.k \in {"list", "tuple"} -> Len(v.items) > 0
      [] v.k = "dict" -> Len(v.kv) > 0
      [] OTHER -> TRUE

\* `a or b`
PyOr(a, b) == IF Truthy(a) THEN a ELSE b

\* dict.get(key) with default None; the first pair with the key wins (keys are unique)
DictGet(dv, key) ==
    IF \E n \in 1..Len(dv.kv) : dv.kv[n].key = key
    THEN dv.kv[CHOOSE n \in 1..Len(dv.kv) : dv.kv[n].key = key].val
    ELSE PyNone

\* hash(v) succeeds: lists and dicts are unhashable, a tuple is hashable iff its items are
RECURSIVE Hashable(_)
Hashable(v) ==
    CASE v.k \in {"list", "dict"} -> FALSE
      [] v.k = "tuple" -> \A n \in 1..Len(v.items) : Hashable(v.items[n])
      [] OTHER -> TRUE

(***************************************************************************)
(* Character-level string helpers (Python str methods)                     *)
(***************************************************************************)
Digits == {"0", "1", "2", "3", "4", "5", "6", "7", "8", "9"}

Whitespace == {" ", "\t", "\n"}

DigitVal(c) ==
    CASE c = "0" -> 0 [] c = "1" -> 1 [] c = "2" -> 2 [] c = "3" -> 3 [] c = "4" -> 4
      [] c = "5" -> 5 [] c = "6" -> 6 [] c = "7" -> 7 [] c = "8" -> 8 [] c = "9" -> 9

RECURSIVE LStrip(_)
LStrip(s) == IF Len(s) > 0 /\ Head(s) \in Whitespace THEN LStrip(Tail(s)) ELSE s

RECURSIVE RStrip(_)
RStrip(s) ==
    IF Len(s) > 0 /\ SubSeq(s, Len(s), Len(s)) \in Whitespace
    THEN RStrip(SubSeq(s, 1, Len(s) - 1))
    ELSE s

\* str.strip()
Strip(s) == RStrip(LStrip(s))

\* str.replace(c, r) for a one-character pattern c
RECURSIVE Replace(_, _, _)
Replace(s, c, r) ==
    IF Len(s) = 0 THEN ""
    ELSE (IF Head(s) = c THEN r ELSE Head(s)) \o Replace(Tail(s), c, r)

AllDigits(s) == Len(s) > 0 /\ \A n \in 1..Len(s) : SubSeq(s, n, n) \in Digits

RECURSIVE DigitsVal(_)
DigitsVal(s) ==
    IF Len(s) = 0 THEN 0
    ELSE 10 * DigitsVal(SubSeq(s, 1, Len(s) - 1)) + DigitVal(SubSeq(s, Len(s), Len(s)))

\* optional sign of a numeric literal: <<sign, rest>>
SignOf(s) ==
    IF Len(s) > 0 /\ Head(s) = "-" THEN <<-1, Tail(s)>>
    ELSE IF Len(s) > 0 /\ Head(s) = "+" THEN <<1, Tail(s)>>
    ELSE <<1, s>>

\* digit groups joined by single underscores ("1_000"), as int() and float() accept
RECURSIVE DigitGroups(_)
DigitGroups(s) ==
    /\ Len(s) > 0
    /\ Head(s) \in Digits
    /\ \/ Len(s) = 1
       \/ DigitGroups(Tail(s))
       \/ /\ Len(s) >= 3
          /\ SubSeq(s, 2, 2) = "_"
          /\ DigitGroups(SubSeq(s, 3, Len(s)))

\* int(str): [ok, n]; ok = FALSE is ValueError
IntParse(s) ==
    LET t == SignOf(Strip(s))
        body == Replace(t[2], "_", "")
    IN IF DigitGroups(t[2]) THEN [ok |-> TRUE, n |-> t[1] * DigitsVal(body)]
       ELSE [ok |-> FALSE, n |-> 0]

RECURSIVE Pow10(_)
Pow10(n) == IF n = 0 THEN 1 ELSE 10 * Pow10(n - 1)

\* n written with at least w digits, zero-padded on the left
RECURSIVE PadLeft(_, _)
PadLeft(str, w) == IF Len(str) >= w THEN str ELSE PadLeft("0" \o str, w)

\* zero-padded two-digit field, as strftime('%m') and friends produce
Pad2(n) == IF n < 10 THEN "0" \o ToString(n) ELSE ToString(n)

\* repr(float), for magnitudes printed in positional notation
FloatRepr(v) ==
    CASE v.cls = "inf" -> IF v.num < 0 THEN "-inf" ELSE "inf"
      [] v.cls = "nan" -> "nan"
      [] OTHER ->
           LET a == IF v.num < 0 THEN -v.num ELSE v.num
               ip == a \div Pow10(v.exp)
               fp == a % Pow10(v.exp)
           IN (IF v.num < 0 THEN "-" ELSE "") \o ToString(ip) \o "."
                  \o (IF v.exp = 0 THEN "0" ELSE PadLeft(ToString(fp), v.exp))

DatetimeStr(v) ==
    PadLeft(ToString(v.y), 4) \o "-" \o Pad2(v.mo) \o "-" \o Pad2(v.d) \o " "
        \o Pad2(v.H) \o ":" \o Pad2(v.Mi) \o ":" \o Pad2(v.S)

RECURSIVE Repr(_)
RECURSIVE JoinRepr(_, _)
\* ", ".join(repr(x) for x in items)
JoinRepr(items, n) ==
    IF n > Len(items) THEN ""
    ELSE (IF n > 1 THEN ", " ELSE "") \o Repr(items[n]) \o JoinRepr(items, n + 1)

RECURSIVE JoinKV(_, _)
JoinKV(kv, n) ==
    IF n > Len(kv) THEN ""
    ELSE (IF n > 1 THEN ", " ELSE "") \o "'" \o kv[n].key \o "': " \o Repr(kv[n].val)
             \o JoinKV(kv, n + 1)

\* repr(v)
Repr(v) ==
    CASE v.k = "None" -> "None"
      [] v.k = "bool" -> IF v.b THEN "True" ELSE "False"
      [] v.k = "int" -> ToString(v.i)
      [] v.k = "float" -> FloatRepr(v)
      [] v.k = "str" -> "'" \o v.s \o "'"
      [] v.k = "list" -> "[" \o JoinRepr(v.items, 1) \o "]"
      [] v.k = "tuple" ->
           "(" \o JoinRepr(v.items, 1) \o (IF Len(v.items) = 1 THEN "," ELSE "") \o ")"
      [] v.k = "dict" -> "{" \o JoinKV(v.kv, 1) \o "}"
      [] OTHER -> "datetime.datetime(" \o ToString(v.y) \o ", " \o ToString(v.mo) \o ", "
                     \o ToString(v.d) \o ", " \o ToString(v.H) \o ", " \o ToString(v.Mi)
                     \o ", " \o ToString(v.S) \o ")"

\* str(v), also what an f-string placeholder {v} produces
Str(v) ==
    CASE v.k = "str" -> v.s
      [] v.k = "datetime" -> DatetimeStr(v)
      [] OTHER -> Repr(v)

\* type(v).__name__
TypeName(v) == IF v.k = "None" THEN "NoneType" ELSE v.k

(***************************************************************************)
(* Results of calls that may raise: exc = "" is a normal return, otherwise *)
(* exc names the Python exception that left the call.                      *)
(***************************************************************************)
Returned(out) == [exc |-> "", out |-> out]

Raised(exc) == [exc |-> exc, out |-> << >>]

\* int(float) for a finite float: truncation toward zero
FloatTrunc(v) ==
    IF v.num >= 0 THEN v.num \div Pow10(v.exp) ELSE -((-v.num) \div Pow10(v.exp))

\* int(value): n on success, otherwise the exception int() raises
PyIntConv(value) ==
    CASE value.k \in {"int", "bool"} -> [exc |-> "", n |-> IntOf(value)]
      [] value.k = "float" ->
           IF value.cls = "inf" THEN [exc |-> "OverflowError", n |-> 0]
           ELSE IF value.cls = "nan" THEN [exc |-> "ValueError", n |-> 0]
           ELSE [exc |-> "",
                 n |-> FloatTrunc(value)]
      [] value.k = "str" ->
           IF IntParse(value.s).ok THEN [exc |-> "", n |-> IntParse(value.s).n]
           ELSE [exc |-> "ValueError", n |-> 0]
      [] OTHER -> [exc |-> "TypeError", n |-> 0]

(***************************************************************************)
(* OdooAgent._normalize_domain_filters and _fix_invalid_operator           *)
(***************************************************************************)
VALID_ODOO_OPERATORS ==
    {"=", "!=", ">", "<", ">=", "<=", "in", "not in", "like", "ilike", "not like",
     "not ilike", "=like", "=ilike", "child_of", "parent_of"}

\* `operator in (...)` on a tuple of string literals: equality, no hashing
OpIn(operator, names) == operator.k = "str" /\ operator.s \in names

\* a leaf emitted as a tuple
Leaf_AsTuple(field, op, value) == PyTuple(<<field, op, value>>)

Leaf(field, op, value) == PyList(<<field, op, value>>)

\* operator repair whose year range ends at the start of the same year
_fix_invalid_operator_SameYear(field, operator, value) ==
    IF ~Hashable(operator) THEN Raised("TypeError")
    ELSE IF OpIn(operator, VALID_ODOO_OPERATORS) THEN Returned(<<Leaf(field, operator, value)>>)
    ELSE IF OpIn(operator, {"year", "YEAR"}) THEN
        LET year == PyIntConv(value)
        IN IF year.exc = "" THEN
               Returned(<<PyStr("&"),
                          Leaf(field, PyStr(">="), PyStr(ToString(year.n) \o "-01-01")),
                          Leaf(field, PyStr("<"), PyStr(ToString(year.n) \o "-01-01"))>>)
           ELSE IF year.exc \in {"ValueError", "TypeError"} THEN Returned(<< >>)
           ELSE Raised(year.exc)
    ELSE IF OpIn(operator, {"month", "MONTH"}) THEN Returned(<< >>)
    ELSE IF OpIn(operator, {"contains", "CONTAINS"}) THEN
        Returned(<<Leaf(field, PyStr("ilike"), value)>>)
    ELSE IF OpIn(operator, {"starts_with", "startswith", "STARTS_WITH"}) THEN
        Returned(<<Leaf(field, PyStr("=like"), PyStr(Str(value) \o "%"))>>)
    ELSE IF OpIn(operator, {"ends_with", "endswith", "ENDS_WITH"}) THEN
        Returned(<<Leaf(field, PyStr("=like"), PyStr("%" \o Str(value)))>>)
    ELSE Returned(<< >>)

_fix_invalid_operator(field, operator, value) ==
    IF ~Hashable(operator) THEN Raised("TypeError")
    ELSE IF OpIn(operator, VALID_ODOO_OPERATORS) THEN Returned(<<Leaf(field, operator, value)>>)
    ELSE IF OpIn(operator, {"year", "YEAR"}) THEN
        LET year == PyIntConv(value)
        IN IF year.exc = "" THEN
               Returned(<<PyStr("&"),
                          Leaf(field, PyStr(">="), PyStr(ToString(year.n) \o "-01-01")),
                          Leaf(field, PyStr("<"), PyStr(ToString(year.n + 1) \o "-01-01"))>>)
           ELSE IF year.exc \in {"ValueError", "TypeError"} THEN Returned(<< >>)
           ELSE Raised(year.exc)
    ELSE IF OpIn(operator, {"month", "MONTH"}) THEN Returned(<< >>)
    ELSE IF OpIn(operator, {"contains", "CONTAINS"}) THEN
        Returned(<<Leaf(field, PyStr("ilike"), value)>>)
    ELSE IF OpIn(operator, {"starts_with", "startswith", "STARTS_WITH"}) THEN
        Returned(<<Leaf(field, PyStr("=like"), PyStr(Str(value) \o "%"))>>)
    ELSE IF OpIn(operator, {"ends_with", "endswith", "ENDS_WITH"}) THEN
        Returned(<<Leaf(field, PyStr("=like"), PyStr("%" \o Str(value)))>>)
    ELSE Returned(<< >>)

\* the loop over the sub-items of a nested list (source lines 328-331)
RECURSIVE NormalizeSubItems(_, _)
NormalizeSubItems(item, n) ==
    IF n > Len(item.items) THEN Returned(<< >>)
    ELSE LET sub_item == item.items[n]
             fixed_filters ==
                 IF IsListOrTuple(sub_item) /\ Len(sub_item.items) = 3
                 THEN _fix_invalid_operator(sub_item.items[1], sub_item.items[2],
                                            sub_item.items[3])
                 ELSE Returned(<< >>)
         IN IF fixed_filters.exc # "" THEN fixed_filters
            ELSE LET rest == NormalizeSubItems(item, n + 1)
                 IN IF rest.exc # "" THEN rest ELSE Returned(fixed_filters.out \o rest.out)

\* one iteration of the loop of _normalize_domain_filters: what the item adds to `normalized`
NormalizeItem(item) ==
    IF item.k = "dict" THEN
        LET field == PyOr(PyOr(DictGet(item, "field"), DictGet(item, "name")),
                          DictGet(item, "column"))
            operator == PyOr(PyOr(DictGet(item, "operator"), DictGet(item, "op")), PyStr("="))
            value == DictGet(item, "value")
        IN IF Truthy(field) /\ ~IsNone(value)
           THEN _fix_invalid_operator(field, operator, value)
           ELSE Returned(<< >>)
    ELSE IF IsListOrTuple(item) THEN
        IF Len(item.items) = 3 /\ IsStr(item.items[1])
        THEN _fix_invalid_operator(item.items[1], item.items[2], item.items[3])
        ELSE IF Len(item.items) > 0 /\ IsListOrTuple(item.items[1])
        THEN NormalizeSubItems(item, 1)
        ELSE Returned(<<item>>)
    ELSE IF IsStr(item) /\ item.s \in {"&", "|", "!"} THEN Returned(<<item>>)
    ELSE Returned(<< >>)

RECURSIVE NormalizeItems(_, _)
NormalizeItems(items, n) ==
    IF n > Len(items) THEN Returned(<< >>)
    ELSE LET r == NormalizeItem(items[n])
         IN IF r.exc # "" THEN r
            ELSE LET rest == NormalizeItems(items, n + 1)
                 IN IF rest.exc # "" THEN rest ELSE Returned(r.out \o rest.out)

_normalize_domain_filters(filters) ==
    IF ~Truthy(filters) THEN Returned(<< >>)
    ELSE IF filters.k # "list" THEN Returned(<< >>)
    ELSE NormalizeItems(filters.items, 1)

(***************************************************************************)
(* More Python built-ins used by the validator: lower(), float(), strptime *)
(***************************************************************************)
UpperAZ == "ABCDEFGHIJKLMNOPQRSTUVWXYZ"

LowerAZ == "abcdefghijklmnopqrstuvwxyz"

LowerChar(c) ==
    IF \E n \in 1..26 : SubSeq(UpperAZ, n, n) = c
    THEN LET n == CHOOSE n \in 1..26 : SubSeq(UpperAZ, n, n) = c IN SubSeq(LowerAZ, n, n)
    ELSE c

\* str.lower()
RECURSIVE Lower(_)
Lower(s) == IF Len(s) = 0 THEN "" ELSE LowerChar(Head(s)) \o Lower(Tail(s))

\* position of the first character of s that is in cs, 0 if there is none
FirstOf(s, cs) ==
    IF \E n \in 1..Len(s) : SubSeq(s, n, n) \in cs
    THEN CHOOSE n \in 1..Len(s) :
             SubSeq(s, n, n) \in cs /\ \A m \in 1..(n - 1) : SubSeq(s, m, m) \notin cs
    ELSE 0

RECURSIVE LStripZeros(_)
LStripZeros(s) == IF Len(s) > 1 /\ Head(s) = "0" THEN LStripZeros(Tail(s)) ELSE s

\* float(str): [ok, val]; ok = FALSE is ValueError.  Magnitudes beyond the double range
\* become inf, magnitudes below it 0.0.
FloatParse(s) ==
    LET t == SignOf(Strip(s))
        r == t[2]
        epos == FirstOf(r, {"e", "E"})
        mant == IF epos = 0 THEN r ELSE SubSeq(r, 1, epos - 1)
        expo == IF epos = 0 THEN "" ELSE SubSeq(r, epos + 1, Len(r))
        dpos == FirstOf(mant, {"."})
        ip == IF dpos = 0 THEN mant ELSE SubSeq(mant, 1, dpos - 1)
        fp == IF dpos = 0 THEN "" ELSE SubSeq(mant, dpos + 1, Len(mant))
        mantOK == IF dpos = 0 THEN DigitGroups(ip)
                  ELSE /\ ip = "" \/ DigitGroups(ip)
                       /\ fp = "" \/ DigitGroups(fp)
                       /\ ~(ip = "" /\ fp = "")
        et == SignOf(expo)
        expOK == epos = 0 \/ DigitGroups(et[2])
        ipd == Replace(ip, "_", "")
        fpd == Replace(fp, "_", "")
        digs == LStripZeros(ipd \o fpd)
        e == IF epos = 0 THEN 0
             ELSE IF Len(LStripZeros(Replace(et[2], "_", ""))) > 3 THEN et[1] * 1000
             ELSE et[1] * DigitsVal(Replace(et[2], "_", ""))
        dexp == Len(fpd) - e
    IN IF Lower(r) \in {"inf", "infinity"} THEN [ok |-> TRUE, val |-> PyInf(t[1])]
       ELSE IF Lower(r) = "nan" THEN [ok |-> TRUE, val |-> PyNaN]
       ELSE IF ~(mantOK /\ expOK) THEN [ok |-> FALSE, val |-> PyNaN]
       ELSE IF digs = "0" \/ Len(digs) - dexp < -323 THEN [ok |-> TRUE, val |-> PyFloat(0, 0)]
       ELSE IF Len(digs) - dexp > 308 THEN [ok |-> TRUE, val |-> PyInf(t[1])]
       ELSE IF dexp < 0 THEN [ok |-> TRUE, val |-> PyFloat(t[1] * DigitsVal(digs) * Pow10(-dexp), 0)]
       ELSE [ok |-> TRUE, val |-> PyFloat(t[1] * DigitsVal(digs), dexp)]

\* float(int)
FloatOfInt(n) == PyFloat(n, 0)

IsLeap(y) == (y % 4 = 0 /\ y % 100 # 0) \/ y % 400 = 0

DaysInMonth(y, mo) ==
    IF mo = 2 THEN (IF IsLeap(y) THEN 29 ELSE 28)
    ELSE IF mo \in {4, 6, 9, 11} THEN 30 ELSE 31

NoTime == [ok |-> FALSE, y |-> 1900, mo |-> 1, d |-> 1, H |-> 0, Mi |-> 0, S |-> 0]

\* the text a strptime directive accepts (the regular expressions of _strptime.TimeRE)
DirectiveOK(c, txt) ==
    LET n == IF AllDigits(txt) THEN DigitsVal(txt) ELSE -1
    IN CASE c = "Y" -> Len(txt) = 4 /\ AllDigits(txt)
         [] c = "m" -> Len(txt) \in {1, 2} /\ n \in 1..12
         [] c = "d" -> \/ Len(txt) \in {1, 2} /\ n \in 1..31
                       \/ Len(txt) = 2 /\ Head(txt) = " " /\ Tail(txt) \in (Digits \ {"0"})
         [] c = "H" -> Len(txt) \in {1, 2} /\ n \in 0..23
         [] c = "M" -> Len(txt) \in {1, 2} /\ n \in 0..59
         [] c = "S" -> Len(txt) \in {1, 2} /\ n \in 0..61
         [] OTHER -> FALSE

SetDirective(acc, c, txt) ==
    LET n == DigitsVal(LStrip(txt))
    IN CASE c = "Y" -> [acc EXCEPT !.y = n]
         [] c = "m" -> [acc EXCEPT !.mo = n]
         [] c = "d" -> [acc EXCEPT !.d = n]
         [] c = "H" -> [acc EXCEPT !.H = n]
         [] c = "M" -> [acc EXCEPT !.Mi = n]
         [] c = "S" -> [acc EXCEPT !.S = n]
         [] OTHER -> acc

\* the regular-expression match of strptime: directives take their longest alternative
\* first, a blank in the format takes any run of whitespace, other characters match
\* themselves ignoring case; nothing of the text may remain
RECURSIVE StrptimeMatch(_, _, _)
StrptimeMatch(s, fmt, acc) ==
    IF Len(fmt) = 0 THEN (IF Len(s) = 0 THEN [acc EXCEPT !.ok = TRUE] ELSE NoTime)
    ELSE IF Head(fmt) = "%" THEN
        LET c == SubSeq(fmt, 2, 2)
            rest == SubSeq(fmt, 3, Len(fmt))
            try(w) == IF Len(s) >= w /\ DirectiveOK(c, SubSeq(s, 1, w))
                      THEN StrptimeMatch(SubSeq(s, w + 1, Len(s)), rest,
                                         SetDirective(acc, c, SubSeq(s, 1, w)))
                      ELSE NoTime
        IN IF c = "Y" THEN try(4)
           ELSE IF try(2).ok THEN try(2) ELSE try(1)
    ELSE IF Head(fmt) = " " THEN
        IF Len(s) > 0 /\ Head(s) \in Whitespace
        THEN StrptimeMatch(LStrip(s), Tail(fmt), acc)
        ELSE NoTime
    ELSE IF Len(s) > 0 /\ LowerChar(Head(s)) = LowerChar(Head(fmt))
        THEN StrptimeMatch(Tail(s), Tail(fmt), acc)
        ELSE NoTime

\* datetime.strptime(s, fmt): ok = FALSE is ValueError
Strptime(s, fmt) ==
    LET m == StrptimeMatch(s, fmt, NoTime)
    IN IF m.ok /\ m.y >= 1 /\ m.d <= DaysInMonth(m.y, m.mo) /\ m.S <= 59 THEN m ELSE NoTime

\* strftime('%Y-%m-%d'); glibc does not pad %Y
StrftimeDate(dt) == ToString(dt.y) \o "-" \o Pad2(dt.mo) \o "-" \o Pad2(dt.d)

\* strftime('%Y-%m-%d %H:%M:%S')
StrftimeDatetime(dt) ==
    StrftimeDate(dt) \o " " \o Pad2(dt.H) \o ":" \o Pad2(dt.Mi) \o ":" \o Pad2(dt.S)

(***************************************************************************)
(* FieldSchema and ModelSchema (schema_cache.py).  Optional attributes     *)
(* hold "" (help, relation) or << >> (selection) for None: the code only   *)
(* tests them for truthiness.  Dicts keyed by field name are sequences in  *)
(* insertion order.                                                        *)
(***************************************************************************)
FieldSchema(name, type, string, help, required, readonly, selection, relation) ==
    [name |-> name, type |-> type, string |-> string, help |-> help, required |-> required,
     readonly |-> readonly, selection |-> selection, relation |-> relation]

ModelSchema(model, fields, loaded_at) ==
    [model |-> model, fields |-> fields, loaded_at |-> loaded_at]

\* `field_name in schema.fields`
HasField(schema, field_name) ==
    \E n \in 1..Len(schema.fields) : schema.fields[n].name = field_name

\* schema.fields[field_name]
FieldOf(schema, field_name) ==
    schema.fields[CHOOSE n \in 1..Len(schema.fields) : schema.fields[n].name = field_name]

get_selection_values(fs) == [n \in 1..Len(fs.selection) |-> fs.selection[n][1]]

\* d[key] = val on a dict held as a sequence of pairs
DictSet(kv, key, val) ==
    IF \E n \in 1..Len(kv) : kv[n].key = key
    THEN [n \in 1..Len(kv) |-> IF kv[n].key = key THEN KV(key, val) ELSE kv[n]]
    ELSE Append(kv, KV(key, val))

RECURSIVE SelectionLabels(_, _)
SelectionLabels(selection, n) ==
    IF n = 0 THEN << >>
    ELSE DictSet(SelectionLabels(selection, n - 1), selection[n][1], selection[n][2])

get_selection_labels(fs) == SelectionLabels(fs.selection, Len(fs.selection))

get_required_fields(schema) ==
    LET req == SelectSeq(schema.fields, LAMBDA f : f.required /\ ~f.readonly)
    IN [n \in 1..Len(req) |-> req[n].name]

(***************************************************************************)
(* OdooValueValidator converters (validator.py).  A conversion returns     *)
(* [exc, val, msg]: exc = "" with the converted value, or the exception    *)
(* raised and, for ValueError, its message.                                *)
(***************************************************************************)
ConvOk(val) == [exc |-> "", val |-> val, msg |-> ""]

ConvRaise(exc, msg) == [exc |-> exc, val |-> PyNone, msg |-> msg]

\* int(value) as a conversion result, with the interpreter's ValueError messages
IntCall(value) ==
    LET r == PyIntConv(value)
    IN IF r.exc = "" THEN ConvOk(PyInt(r.n))
       ELSE IF r.exc = "ValueError" THEN
           ConvRaise("ValueError",
                     IF value.k = "str"
                     THEN "invalid literal for int() with base 10: " \o Repr(value)
                     ELSE "cannot convert float NaN to integer")
       ELSE ConvRaise(r.exc, "")

_convert_integer(value) ==
    IF IsInt(value) THEN ConvOk(value)
    ELSE IF value.k = "float" THEN IntCall(value)
    ELSE IF value.k = "str" THEN
        LET cleaned == Replace(Replace(Strip(value.s), ",", ""), " ", "")
            f == FloatParse(cleaned)
        IN IF ~f.ok THEN ConvRaise("ValueError", "Cannot convert '" \o cleaned \o "' to integer")
           ELSE IF IntCall(f.val).exc = "ValueError"
           THEN ConvRaise("ValueError", "Cannot convert '" \o cleaned \o "' to integer")
           ELSE IntCall(f.val)
    ELSE ConvRaise("ValueError", "Cannot convert " \o TypeName(value) \o " to integer")

_convert_float(value) ==
    IF IsInt(value) THEN ConvOk(FloatOfInt(IntOf(value)))
    ELSE IF value.k = "float" THEN ConvOk(value)
    ELSE IF value.k = "str" THEN
        LET cleaned == Replace(Replace(Strip(value.s), ",", "."), " ", "")
            f == FloatParse(cleaned)
        IN IF f.ok THEN ConvOk(f.val)
           ELSE ConvRaise("ValueError", "Cannot convert '" \o cleaned \o "' to float")
    ELSE ConvRaise("ValueError", "Cannot convert " \o TypeName(value) \o " to float")

\* the Cyrillic words of the source are carried as the ASCII tokens {da} and {net}
_convert_boolean(value) ==
    IF value.k = "bool" THEN ConvOk(value)
    ELSE IF value.k \in {"int", "float"} THEN ConvOk(PyBool(Truthy(value)))
    ELSE IF value.k = "str" THEN
        LET lower == Strip(Lower(value.s))
        IN IF lower \in {"true", "1", "yes", "{da}", "on"} THEN ConvOk(PyBool(TRUE))
           ELSE IF lower \in {"false", "0", "no", "{net}", "off"} THEN ConvOk(PyBool(FALSE))
           ELSE ConvRaise("ValueError", "Cannot convert '" \o value.s \o "' to boolean")
    ELSE ConvRaise("ValueError", "Cannot convert " \o TypeName(value) \o " to boolean")

DATE_FORMATS == <<"%Y-%m-%d", "%d.%m.%Y", "%d/%m/%Y", "%m/%d/%Y", "%Y-%m-%d %H:%M:%S">>

DATETIME_FORMATS ==
    <<"%Y-%m-%d %H:%M:%S", "%Y-%m-%dT%H:%M:%S", "%Y-%m-%d %H:%M", "%d.%m.%Y %H:%M:%S",
      "%d.%m.%Y %H:%M", "%d/%m/%Y %H:%M:%S", "%Y-%m-%d">>

\* the first format of the list that parses s, NoTime if none does
RECURSIVE TryFormats(_, _, _)
TryFormats(s, formats, n) ==
    IF n > Len(formats) THEN NoTime
    ELSE IF Strptime(s, formats[n]).ok THEN Strptime(s, formats[n])
    ELSE TryFormats(s, formats, n + 1)

_convert_date(value) ==
    IF value.k = "datetime" THEN ConvOk(PyStr(StrftimeDate(value)))
    ELSE IF value.k = "str" THEN
        LET dt == TryFormats(Strip(value.s), DATE_FORMATS, 1)
        IN IF dt.ok THEN ConvOk(PyStr(StrftimeDate(dt)))
           ELSE ConvRaise("ValueError", "Cannot parse date: '" \o Strip(value.s)
                                            \o "'. Use YYYY-MM-DD format.")
    ELSE ConvRaise("ValueError", "Cannot convert " \o TypeName(value) \o " to date")

_convert_datetime(value) ==
    IF value.k = "datetime" THEN ConvOk(PyStr(StrftimeDatetime(value)))
    ELSE IF value.k = "str" THEN
        LET dt == TryFormats(Strip(value.s), DATETIME_FORMATS, 1)
        IN IF dt.ok THEN ConvOk(PyStr(StrftimeDatetime(dt)))
           ELSE ConvRaise("ValueError", "Cannot parse datetime: '" \o Strip(value.s)
                                            \o "'. Use YYYY-MM-DD HH:MM:SS format.")
    ELSE ConvRaise("ValueError", "Cannot convert " \o TypeName(value) \o " to datetime")

\* ', '.join(strs)
RECURSIVE Join(_, _)
Join(strs, n) ==
    IF n > Len(strs) THEN ""
    ELSE (IF n > 1 THEN ", " ELSE "") \o strs[n] \o Join(strs, n + 1)

\* selection conversion without the match on labels
_convert_selection_NoLabels(value, field_schema) ==
    LET value_str == Strip(Str(value))
        allowed == get_selection_values(field_schema)
        value_lower == Lower(value_str)
        ci == {n \in 1..Len(allowed) : Lower(allowed[n]) = value_lower}
        first(ns) == CHOOSE n \in ns : \A m \in ns : n <= m
    IN IF Len(allowed) = 0 THEN ConvOk(PyStr(value_str))
       ELSE IF \E n \in 1..Len(allowed) : allowed[n] = value_str THEN ConvOk(PyStr(value_str))
       ELSE IF ci # {} THEN ConvOk(PyStr(allowed[first(ci)]))
       ELSE ConvRaise("ValueError", "Invalid value '" \o value_str \o "'. Allowed: "
                                        \o Join(allowed, 1))

_convert_selection(value, field_schema) ==
    LET value_str == Strip(Str(value))
        allowed == get_selection_values(field_schema)
        value_lower == Lower(value_str)
        labels == get_selection_labels(field_schema)
        ci == {n \in 1..Len(allowed) : Lower(allowed[n]) = value_lower}
        byLabel == {n \in 1..Len(labels) : Lower(labels[n].val) = value_lower}
        first(ns) == CHOOSE n \in ns : \A m \in ns : n <= m
    IN IF Len(allowed) = 0 THEN ConvOk(PyStr(value_str))
       ELSE IF \E n \in 1..Len(allowed) : allowed[n] = value_str THEN ConvOk(PyStr(value_str))
       ELSE IF ci # {} THEN ConvOk(PyStr(allowed[first(ci)]))
       ELSE IF byLabel # {} THEN ConvOk(PyStr(labels[first(byLabel)].key))
       ELSE ConvRaise("ValueError", "Invalid value '" \o value_str \o "'. Allowed: "
                                        \o Join(allowed, 1))

_convert_many2one(value) ==
    IF IsNone(value) \/ (value.k = "bool" /\ ~value.b) THEN ConvOk(PyBool(FALSE))
    ELSE IF IsInt(value) THEN ConvOk(value)
    ELSE IF IsListOrTuple(value) /\ Len(value.items) >= 1 THEN IntCall(value.items[1])
    ELSE IF value.k = "str" THEN
        IF IntCall(value).exc = "" THEN IntCall(value)
        ELSE ConvRaise("ValueError", "Many2one field requires integer ID, got '"
                                         \o value.s \o "'")
    ELSE ConvRaise("ValueError", "Cannot convert " \o TypeName(value) \o " to many2one ID")

\* the loop of _convert_x2many over a plain list: the ids collected, or the exception
RECURSIVE X2ManyIds(_, _)
X2ManyIds(items, n) ==
    IF n > Len(items) THEN ConvOk(PyList(<< >>))
    ELSE LET v == items[n]
             one == IF IsInt(v) THEN ConvOk(PyList(<<v>>))
                    ELSE IF IsListOrTuple(v) /\ Len(v.items) >= 1 THEN
                        (IF IntCall(v.items[1]).exc = ""
                         THEN ConvOk(PyList(<<IntCall(v.items[1]).val>>))
                         ELSE IntCall(v.items[1]))
                    ELSE IF IntCall(v).exc = "" THEN ConvOk(PyList(<<IntCall(v).val>>))
                    ELSE IF IntCall(v).exc \in {"ValueError", "TypeError"}
                    THEN ConvOk(PyList(<< >>))
                    ELSE IntCall(v)
         IN IF one.exc # "" THEN one
            ELSE LET rest == X2ManyIds(items, n + 1)
                 IN IF rest.exc # "" THEN rest
                    ELSE ConvOk(PyList(one.val.items \o rest.val.items))

_convert_x2many(value, field_schema) ==
    IF IsNone(value)
    THEN ConvOk(PyList(<<PyTuple(<<PyInt(5), PyInt(0), PyInt(0)>>)>>))
    ELSE IF value.k = "list" /\ Len(value.items) > 0 /\ IsListOrTuple(value.items[1])
    THEN ConvOk(value)
    ELSE IF value.k = "list" THEN
        LET ids == X2ManyIds(value.items, 1)
        IN IF ids.exc # "" THEN ids
           ELSE ConvOk(PyList(<<PyTuple(<<PyInt(6), PyInt(0), ids.val>>)>>))
    ELSE ConvRaise("ValueError", "Cannot convert " \o TypeName(value) \o " to x2many format")

_convert_value(value, field_schema) ==
    LET field_type == field_schema.type
    IN IF IsNone(value) THEN
           (IF field_schema.required
            THEN ConvRaise("ValueError", "Required field cannot be null")
            ELSE ConvOk(PyNone))
       ELSE IF field_type = "integer" THEN _convert_integer(value)
       ELSE IF field_type \in {"float", "monetary"} THEN _convert_float(value)
       ELSE IF field_type = "boolean" THEN _convert_boolean(value)
       ELSE IF field_type = "date" THEN _convert_date(value)
       ELSE IF field_type = "datetime" THEN _convert_datetime(value)
       ELSE IF field_type = "selection" THEN _convert_selection(value, field_schema)
       ELSE IF field_type = "many2one" THEN _convert_many2one(value)
       ELSE IF field_type \in {"many2many", "one2many"} THEN _convert_x2many(value, field_schema)
       ELSE IF field_type \in {"char", "text", "html"} THEN ConvOk(PyStr(Str(value)))
       ELSE ConvOk(value)

(***************************************************************************)
(* OdooValueValidator.validate_and_convert.  `lookup` is the outcome of    *)
(* schema_cache.get_model_schema(model): [exc, schema].  The result is     *)
(* [exc, validated, errors]; exc # "" means the call raised.               *)
(***************************************************************************)
\* `logged` holds the required fields the call names in its debug log.
ValidationResult(validated, errors) ==
    [exc |-> "", validated |-> validated, errors |-> errors, logged |-> << >>]

ValidationRaised(exc) == [exc |-> exc, validated |-> << >>, errors |-> << >>, logged |-> << >>]

\* one pass of the loop without its readonly check
ValidateItem_NoReadonlyCheck(schema, field_name, value, validated, errors) ==
    IF ~HasField(schema, field_name)
    THEN ValidationResult(validated, Append(errors, "Unknown field: " \o field_name))
    ELSE LET Store(converted) ==
                 IF converted.exc = ""
                 THEN ValidationResult(DictSet(validated, field_name, converted.val), errors)
                 ELSE IF converted.exc = "ValueError"
                 THEN ValidationResult(validated,
                                       Append(errors, "Field '" \o field_name \o "': "
                                                          \o converted.msg))
                 ELSE ValidationRaised(converted.exc)
         IN Store(_convert_value(value, FieldOf(schema, field_name)))

\* one pass of the loop dropping an unknown field without an error
ValidateItem_DropUnknown(schema, field_name, value, validated, errors) ==
    IF ~HasField(schema, field_name)
    THEN ValidationResult(validated, errors)
    ELSE IF FieldOf(schema, field_name).readonly
    THEN ValidationResult(validated, Append(errors, "Field '" \o field_name \o "' is readonly"))
    ELSE LET Store(converted) ==
                 IF converted.exc = ""
                 THEN ValidationResult(DictSet(validated, field_name, converted.val), errors)
                 ELSE IF converted.exc = "ValueError"
                 THEN ValidationResult(validated,
                                       Append(errors, "Field '" \o field_name \o "': "
                                                          \o converted.msg))
                 ELSE ValidationRaised(converted.exc)
         IN Store(_convert_value(value, FieldOf(schema, field_name)))

\* one pass of the loop over values.items() (source lines 98-117): the two collections after
\* it, or the exception that leaves the loop
ValidateItem(schema, field_name, value, validated, errors) ==
    IF ~HasField(schema, field_name)
    THEN ValidationResult(validated, Append(errors, "Unknown field: " \o field_name))
    ELSE IF FieldOf(schema, field_name).readonly
    THEN ValidationResult(validated, Append(errors, "Field '" \o field_name \o "' is readonly"))
    ELSE LET Store(converted) ==
                 IF converted.exc = ""
                 THEN ValidationResult(DictSet(validated, field_name, converted.val), errors)
                 ELSE IF converted.exc = "ValueError"
                 THEN ValidationResult(validated,
                                       Append(errors, "Field '" \o field_name \o "': "
                                                          \o converted.msg))
                 ELSE ValidationRaised(converted.exc)
         IN Store(_convert_value(value, FieldOf(schema, field_name)))

\* the loop from item n on
RECURSIVE ValidateItems(_, _, _, _, _)
ValidateItems(schema, kv, n, validated, errors) ==
    IF n > Len(kv) THEN ValidationResult(validated, errors)
    ELSE LET Continue(pass) ==
                 IF pass.exc # "" THEN pass
                 ELSE ValidateItems(schema, kv, n + 1, pass.validated, pass.errors)
         IN Continue(ValidateItem(schema, kv[n].key, kv[n].val, validated, errors))

\* a validator that fails closed when the schema cannot be loaded
validate_and_convert_FailClosed(lookup, values, operation) ==
    IF lookup.exc # "" THEN ValidationResult(<< >>, <<"Schema unavailable">>)
    ELSE ValidateItems(lookup.schema, values.kv, 1, << >>, << >>)

\* the required fields that are neither accepted nor given (source lines 121-123)
MissingRequired(schema, validated, values) ==
    SelectSeq(get_required_fields(schema),
              LAMBDA req_field : /\ \A n \in 1..Len(validated) : validated[n].key # req_field
                                 /\ \A n \in 1..Len(values.kv) : values.kv[n].key # req_field)

\* a validator that rejects a create payload lacking a required field
validate_and_convert_RequiredOnCreate(lookup, values, operation) ==
    IF lookup.exc # "" THEN ValidationResult(values.kv, << >>)
    ELSE LET Finish(looped) ==
                 IF looped.exc # "" \/ operation # "create" THEN looped
                 ELSE LET missing == MissingRequired(lookup.schema, looped.validated, values)
                      IN [looped EXCEPT
                              !.errors = @ \o [n \in 1..Len(missing) |->
                                                  "Field '" \o missing[n] \o "' is required"],
                              !.logged = missing]
         IN Finish(ValidateItems(lookup.schema, values.kv, 1, << >>, << >>))

\* for operation = "create" the code also logs the required fields that are missing
\* (source lines 119-126), which changes neither collection
validate_and_convert(lookup, values, operation) ==
    IF lookup.exc # "" THEN ValidationResult(values.kv, << >>)
    ELSE LET Finish(looped) ==
                 IF looped.exc # "" \/ operation # "create" THEN looped
                 ELSE [looped EXCEPT
                           !.logged = MissingRequired(lookup.schema, looped.validated, values)]
         IN Finish(ValidateItems(lookup.schema, values.kv, 1, << >>, << >>))

(***************************************************************************)
(* ModelSchema.format_for_prompt                                           *)
(***************************************************************************)
PRIORITY_FIELDS ==
    <<"name", "state", "date", "date_order", "partner_id", "amount_total", "product_id",
      "quantity", "price_unit">>

\* f.selection[:10] rendered as "a, b, c", with "..." appended beyond ten values
SelectionPreview(fs) ==
    LET vals == get_selection_values(fs)
        shown == SubSeq(vals, 1, IF Len(vals) > 10 THEN 10 ELSE Len(vals))
    IN Join(IF Len(vals) > 10 THEN Append(shown, "...") ELSE shown, 1)

\* " ".join(strs)
RECURSIVE JoinSp(_, _)
JoinSp(strs, n) ==
    IF n > Len(strs) THEN ""
    ELSE (IF n > 1 THEN " " ELSE "") \o strs[n] \o JoinSp(strs, n + 1)

\* the description line of one field (source lines 104-130)
FieldLine(f) ==
    LET p1 == <<"- **" \o f.name \o "** (" \o f.type \o ")">>
        p2 == IF f.required THEN <<"[required]">> ELSE << >>
        p3 == IF Len(f.string) > 0 /\ f.string # f.name
              THEN <<"\"" \o f.string \o "\"">> ELSE << >>
        p4 == IF Len(f.selection) > 0
              THEN <<"values: [" \o SelectionPreview(f) \o "]">> ELSE << >>
        p5 == IF Len(f.relation) > 0 THEN <<"-> " \o f.relation>> ELSE << >>
        p6 == IF Len(f.help) > 0
              THEN <<"- " \o Replace(SubSeq(f.help, 1, IF Len(f.help) > 80 THEN 80
                                                          ELSE Len(f.help)), "\n", " ")
                          \o (IF Len(f.help) > 80 THEN "..." ELSE "")>>
              ELSE << >>
    IN JoinSp(p1 \o p2 \o p3 \o p4 \o p5 \o p6, 1)

\* the lines of format_for_prompt(fields, max_fields); `fields` = << >> stands for None
format_for_prompt(schema, fields, max_fields) ==
    LET names == [n \in 1..Len(schema.fields) |-> schema.fields[n].name]
        InSeq(x, q) == \E n \in 1..Len(q) : q[n] = x
        priority == SelectSeq(PRIORITY_FIELDS, LAMBDA f : HasField(schema, f))
        others == SelectSeq(names, LAMBDA f : ~InSeq(f, priority) /\ ~FieldOf(schema, f).readonly)
        target_fields == IF Len(fields) > 0
                         THEN SelectSeq(fields, LAMBDA f : HasField(schema, f))
                         ELSE priority \o others
        limited == SubSeq(target_fields, 1,
                          IF Len(target_fields) > max_fields THEN max_fields
                          ELSE Len(target_fields))
        more == IF Len(schema.fields) > max_fields
                THEN <<"\n_... and " \o ToString(Len(schema.fields) - max_fields)
                          \o " more fields_">>
                ELSE << >>
    IN <<"## Model: " \o schema.model, "### Available Fields:">>
           \o [n \in 1..Len(limited) |-> FieldLine(FieldOf(schema, limited[n]))]
           \o more

(***************************************************************************)
(* The remote ERP: what fields_get answers for a model.  The definitions   *)
(* of sale.order differ between the revisions of the remote                *)
(* (RemoteVersions), and a call may fail.                                  *)
(***************************************************************************)
Models == {"sale.order", "res.partner"}

RemoteVersions == {1, 2}

StateSelection == <<<<"draft", "Draft">>, <<"approved", "Approved">>, <<"done", "Done">>>>

\* fields_get(model) in insertion order: <<field name, attribute dict>>
FieldsData(model, ver) ==
    IF model = "sale.order" THEN
        <<[name |-> "name",
           info |-> [type |-> "char", string |-> "Order Reference", required |-> TRUE,
                     readonly |-> ver = 2]],
          [name |-> "state",
           info |-> [type |-> "selection", string |-> "Status", readonly |-> TRUE,
                     selection |-> StateSelection, help |-> "Status of the order"]],
          [name |-> "amount_total",
           info |-> [type |-> "monetary", string |-> "Total", readonly |-> ver = 1]],
          [name |-> "partner_id",
           info |-> [type |-> "many2one", string |-> "Customer", required |-> TRUE,
                     relation |-> "res.partner"]],
          [name |-> "__last_update",
           info |-> [type |-> "datetime", string |-> "Last Modified on", readonly |-> TRUE]]>>
    ELSE
        <<[name |-> "name", info |-> [type |-> "char", string |-> "name"]],
          [name |-> "ref", info |-> [string |-> "Reference"]],
          [name |-> "category_id",
           info |-> [type |-> "many2many", string |-> "Tags",
                     relation |-> "res.partner.category"]],
          [name |-> "create_date",
           info |-> [type |-> "datetime", string |-> "Created on", readonly |-> TRUE]]>>

\* dict.get(key, default) on an attribute dict
InfoGet(info, key, default) == IF key \in DOMAIN info THEN info[key] ELSE default

(***************************************************************************)
(* OdooSchemaCache (schema_cache.py).  Schema objects live in `heap` and   *)
(* are named by their index; `_cache` maps a model to an object, 0 = no    *)
(* entry.                                                                  *)
(***************************************************************************)
\* objects the heap may hold
MaxObjs == 2

\* the clock runs from 0 to MaxTime
MaxTime == 2

\* cache_ttl of the constructor, in clock ticks
cache_ttl == 1

_parse_fields(model, fields_data, time) ==
    LET kept == SelectSeq(fields_data, LAMBDA e : SubSeq(e.name, 1, 2) # "__")
    IN ModelSchema(model,
                   [n \in 1..Len(kept) |->
                       FieldSchema(kept[n].name,
                                   InfoGet(kept[n].info, "type", "char"),
                                   InfoGet(kept[n].info, "string", kept[n].name),
                                   InfoGet(kept[n].info, "help", ""),
                                   InfoGet(kept[n].info, "required", FALSE),
                                   InfoGet(kept[n].info, "readonly", FALSE),
                                   InfoGet(kept[n].info, "selection", << >>),
                                   InfoGet(kept[n].info, "relation", ""))],
                   time)

\* an entry still counted as fresh when its age equals the TTL
_is_cached_Inclusive(cache, heap, time, model) ==
    IF cache[model] = 0 THEN FALSE
    ELSE time - heap[cache[model]].loaded_at <= cache_ttl

_is_cached(cache, heap, time, model) ==
    IF cache[model] = 0 THEN FALSE
    ELSE time - heap[cache[model]].loaded_at < cache_ttl

\* a load that drops the entry when the fetch fails
_load_model_schema_EvictOnFailure(cache, heap, time, model, resp) ==
    IF ~resp.ok
    THEN [exc |-> "Exception", ret |-> 0, cache |-> [cache EXCEPT ![model] = 0], heap |-> heap]
    ELSE LET schema == _parse_fields(model, FieldsData(model, resp.ver), time)
             id == Len(heap) + 1
         IN [exc |-> "", ret |-> id, cache |-> [cache EXCEPT ![model] = id],
             heap |-> Append(heap, schema)]

\* a load that refreshes the cached object in place
_load_model_schema_InPlace(cache, heap, time, model, resp) ==
    IF ~resp.ok THEN [exc |-> "Exception", ret |-> 0, cache |-> cache, heap |-> heap]
    ELSE LET schema == _parse_fields(model, FieldsData(model, resp.ver), time)
             id == Len(heap) + 1
         IN IF cache[model] # 0
            THEN [exc |-> "", ret |-> cache[model], cache |-> cache,
                  heap |-> [heap EXCEPT ![cache[model]] = schema]]
            ELSE [exc |-> "", ret |-> id, cache |-> [cache EXCEPT ![model] = id],
                  heap |-> Append(heap, schema)]

\* _load_model_schema with the remote's answer resp = [ok, ver]:
\* [exc, ret, cache, heap]
_load_model_schema(cache, heap, time, model, resp) ==
    IF ~resp.ok THEN [exc |-> "Exception", ret |-> 0, cache |-> cache, heap |-> heap]
    ELSE LET schema == _parse_fields(model, FieldsData(model, resp.ver), time)
             id == Len(heap) + 1
         IN [exc |-> "", ret |-> id, cache |-> [cache EXCEPT ![model] = id],
             heap |-> Append(heap, schema)]

\* get_model_schema: [exc, ret, cache, heap, fetched]
get_model_schema(cache, heap, time, model, force_reload, resp) ==
    IF ~force_reload /\ _is_cached(cache, heap, time, model)
    THEN [exc |-> "", ret |-> cache[model], cache |-> cache, heap |-> heap, fetched |-> FALSE]
    ELSE LET r == _load_model_schema(cache, heap, time, model, resp)
         IN [exc |-> r.exc, ret |-> r.ret, cache |-> r.cache, heap |-> r.heap,
             fetched |-> TRUE]

\* invalidate(model); model = "" stands for None
invalidate(cache, model) ==
    IF model # "" THEN [cache EXCEPT ![model] = 0] ELSE [m \in Models |-> 0]

(***************************************************************************)
(* Raw filter inputs, as a language model may emit them                    *)
(***************************************************************************)
\* longest list of items drawn from CoreItems
MaxItems == 2

S(x) == PyStr(x)

\* operators a leaf may carry: the accepted ones, the rewritten pseudo-operators, others
RawOperators ==
    {S(o) : o \in VALID_ODOO_OPERATORS}
    \cup {S(o) : o \in {"year", "YEAR", "month", "MONTH", "contains", "CONTAINS", "starts_with",
                        "startswith", "STARTS_WITH", "ends_with", "endswith", "ENDS_WITH"}}
    \cup {S("between"), S("Year"), S(""), PyInt(5), PyNone, PyBool(TRUE),
          PyTuple(<<S("=")>>), PyList(<<S("=")>>), PyDict(<<KV("op", S("="))>>),
          PyTuple(<<PyList(<< >>)>>)}

RawValues ==
    {S("2025"), S(" 1_999 "), S("abc"), PyInt(2024), PyNone, PyFloat(20245, 1), PyInf(1), PyNaN,
     PyList(<<PyInt(1), PyInt(2)>>), PyBool(TRUE)}

\* every leaf shape with every operator and value
AllLeafItems ==
    UNION {{PyList(<<S("date"), o, v>>),
            PyTuple(<<S("date"), o, v>>),
            PyDict(<<KV("field", S("date")), KV("operator", o), KV("value", v)>>),
            PyDict(<<KV("column", S("date")), KV("op", o), KV("value", v)>>),
            PyList(<<PyList(<<S("date"), o, v>>)>>)} : o \in RawOperators, v \in RawValues}

CoreItems ==
    {S("&"), S("|"), S("!"), S("x"), PyInt(7), PyNone,
     PyList(<<S("name"), S("="), S("abc")>>),
     PyList(<<S("name"), S("ilike"), S("abc")>>),
     PyList(<<S("date"), S("year"), S("2025")>>),
     PyList(<<S("date"), S("year"), S("abc")>>),
     PyList(<<S("date"), S("month"), PyInt(5)>>),
     PyList(<<S("name"), S("contains"), S("abc")>>),
     PyList(<<S("name"), S("starts_with"), PyInt(5)>>),
     PyList(<<S("name"), S("between"), PyInt(5)>>),
     PyList(<<S("name"), PyList(<<S("=")>>), PyInt(5)>>),
     PyList(<<S("name"), S("=")>>),
     PyList(<<PyInt(1), S("badop"), PyInt(2)>>),
     PyList(<< >>),
     PyList(<<PyList(<<S("name"), S("endswith"), S("abc")>>),
              PyList(<<S("name"), S("=")>>),
              PyList(<<PyInt(3), S("!="), PyInt(4)>>)>>),
     PyDict(<<KV("name", S("date")), KV("op", S("YEAR")), KV("value", PyInt(2024))>>),
     PyDict(<<KV("field", S("name")), KV("value", S("abc"))>>),
     PyDict(<<KV("field", S("name")), KV("operator", S("="))>>)}

RawFilters ==
    {PyNone, S("name = abc"), PyInt(0), PyInt(3), PyDict(<< >>),
     PyDict(<<KV("field", S("name")), KV("operator", S("=")), KV("value", S("abc"))>>),
     PyTuple(<<PyList(<<S("name"), S("="), S("abc")>>)>>),
     PyList(<<S("name"), S("="), S("abc")>>),
     PyList(<<S("name"), S("in"), PyList(<<PyInt(1), PyInt(2)>>)>>),
     PyList(<<PyList(<<PyList(<<PyList(<<S("a"), S("="), PyInt(1)>>), S("in"), PyInt(5)>>)>>)>>),
     PyList(<<PyDict(<<KV("field", PyList(<<S("name")>>)), KV("operator", S("=")),
                       KV("value", PyInt(1))>>)>>)}
    \cup {PyList(<<i>>) : i \in AllLeafItems}
    \cup {PyList(q) : q \in UNION {[1..n -> CoreItems] : n \in 0..MaxItems}}

(***************************************************************************)
(* Write payloads for the validator                                        *)
(***************************************************************************)
FieldTypes ==
    {"integer", "float", "monetary", "boolean", "date", "datetime", "selection", "many2one",
     "many2many", "one2many", "char", "text", "html", "binary", "reference"}

\* calendar dates, at midnight
Dates ==
    {[ok |-> TRUE, y |-> 2025, mo |-> 1, d |-> 2, H |-> 0, Mi |-> 0, S |-> 0],
     [ok |-> TRUE, y |-> 2025, mo |-> 11, d |-> 24, H |-> 0, Mi |-> 0, S |-> 0]}

\* dt.strftime(fmt) for the directives of the date formats
RECURSIVE Strftime(_, _)
Strftime(dt, fmt) ==
    IF Len(fmt) = 0 THEN ""
    ELSE LET c == IF Head(fmt) = "%" THEN SubSeq(fmt, 2, 2) ELSE ""
             piece == CASE c = "" -> SubSeq(fmt, 1, 1)
                        [] c = "Y" -> ToString(dt.y)
                        [] c = "m" -> Pad2(dt.mo)
                        [] c = "d" -> Pad2(dt.d)
                        [] c = "H" -> Pad2(dt.H)
                        [] c = "M" -> Pad2(dt.Mi)
                        [] OTHER -> Pad2(dt.S)
         IN piece \o Strftime(dt, SubSeq(fmt, Len(c) + 2, Len(fmt)))

\* the dates written in each of the accepted date formats
DateStrings == {Strftime(D, DATE_FORMATS[n]) : D \in Dates, n \in 1..Len(DATE_FORMATS)}

\* raw values of every shape a field may be given
PayloadValues ==
    {PyNone, PyBool(TRUE), PyBool(FALSE), PyInt(7), PyFloat(15, 1), PyInf(1), PyNaN,
     S("12"), S("1 234,56"), S("abc"), S("inf"), S("yes"), S("Approved"), S("draft"),
     S("Draft"), S("Quotation"),
     S("24.11.2025"), S("01/02/2025"), S("2025-11-24 10:11:12"),
     PyList(<< >>), PyList(<<PyInt(1), S("2"), PyTuple(<<PyInt(3), S("x")>>)>>),
     PyList(<<PyTuple(<<PyInt(3), S("x")>>), PyInt(1), S("2")>>),
     PyList(<<S("abc"), PyInt(1)>>), PyList(<<PyNone, PyInt(2)>>),
     PyList(<<PyInt(1), PyTuple(<<S("abc"), S("x")>>), PyInt(2)>>),
     PyList(<<PyTuple(<<PyNone, S("x")>>)>>), PyList(<<PyTuple(<<S("abc"), S("x")>>)>>),
     PyList(<<PyTuple(<<PyInt(4), PyInt(5), PyInt(0)>>)>>),
     PyTuple(<<PyInt(1), S("Name")>>), PyTuple(<<PyNone>>), PyTuple(<<S("abc")>>),
     PyDict(<<KV("a", PyInt(1))>>),
     [k |-> "datetime", y |-> 2025, mo |-> 1, d |-> 2, H |-> 3, Mi |-> 4, S |-> 5]}
    \cup {S(str) : str \in DateStrings}

\* the schema of a model whose field "f" has the given definition, next to a text field "g"
TestSchema(type, required, readonly) ==
    ModelSchema("x.model",
                <<FieldSchema("f", type, "F", "", required, readonly,
                              IF type = "selection" THEN StateSelection ELSE << >>, ""),
                  FieldSchema("g", "char", "G", "", FALSE, FALSE, << >>, "")>>,
                0)

\* a choice list in which the label of one choice is the raw value of another
ShadowedSelection == <<<<"draft", "Quotation">>, <<"sale", "Draft">>>>

\* the schema of a model whose field "f" is a writable single-choice field
SelectionSchema(selection) ==
    ModelSchema("x.model",
                <<FieldSchema("f", "selection", "F", "", FALSE, FALSE, selection, ""),
                  FieldSchema("g", "char", "G", "", FALSE, FALSE, << >>, "")>>,
                0)

SchemaLookups ==
    {[exc |-> "Exception", schema |-> ModelSchema("x.model", << >>, 0)],
     [exc |-> "", schema |-> SelectionSchema(ShadowedSelection)]}
    \cup {[exc |-> "", schema |-> TestSchema(t, rq, ro)] :
              t \in FieldTypes, rq \in BOOLEAN, ro \in BOOLEAN}

Payloads ==
    UNION {{PyDict(<<KV("f", v)>>),
            PyDict(<<KV("f", v), KV("g", S("Acme"))>>),
            PyDict(<<KV("unknown_xyz", v), KV("f", S("12"))>>)} : v \in PayloadValues}
    \cup {PyDict(<<KV("g", S("Acme"))>>)}

\* the operation names: the agent passes "create" or "update", the default is "write"
Operations == {"create", "update", "write"}

(***************************************************************************)
(* State                                                                   *)
(***************************************************************************)
VARIABLES
    filters,        \* the raw filters handed to _normalize_domain_filters
    normalized,     \* its outcome: [called, exc, out]
    vargs,          \* arguments of a validate_and_convert call on a given schema lookup
    vresult,        \* its outcome: [called, exc, validated, errors, logged]
    _cache,         \* OdooSchemaCache._cache: model -> schema object, 0 = no entry
    heap,           \* the ModelSchema objects created so far
    now,            \* time.time()
    remote,         \* the revision of the remote, which decides what fields_get answers
    call,           \* the call that has just completed and its result, until the caller
                    \* has taken it
    thr,            \* per thread: where it stands in get_model_schema, and its locals
    served,         \* history: the <<model, revision>> answers the remote has given
    lastStore,      \* history: per model, the object of the last `_cache[model] = schema`
    read_only_mode, \* settings.read_only_mode, fixed when the process starts
    pending_action, \* the chat session's pending_action: a response awaiting yes or no
    turn,           \* the last request and what the agent did with it
    ttl_cache,      \* a TTLCache: its max_size, its OrderedDict in order, hits and misses
    recency,        \* history: the keys of the TTLCache, least recently used first
    ttl_call        \* the last operation on the TTLCache and what it returned

normVars == <<filters, normalized>>

valVars == <<vargs, vresult>>

cacheVars == <<_cache, heap, now, remote, call>>

thrVars == <<thr, served, lastStore>>

agentVars == <<read_only_mode, pending_action, turn>>

ttlVars == <<ttl_cache, recency, ttl_call>>

vars ==
    <<filters, normalized, vargs, vresult, _cache, heap, now, remote, call, thr, served,
      lastStore, read_only_mode, pending_action, turn, ttl_cache, recency, ttl_call>>

Threads == {1, 2}

\* pc: idle, check_in (line 216), check_age (219-221), hit (208), fetch (226),
\* parse (234), store (235-237), done; fetch: "", "ok" or "failed"
ThreadIdle ==
    [pc |-> "idle", model |-> "", force_reload |-> FALSE, fetch |-> "", data |-> 0,
     obj |-> 0, ret |-> 0, exc |-> ""]

ThrIdle ==
    /\ thr = [t \in Threads |-> ThreadIdle]
    /\ served = {}
    /\ lastStore = [m \in Models |-> 0]

NotCalled == [called |-> FALSE, exc |-> "", out |-> << >>]

Outcome(r) == [called |-> TRUE, exc |-> r.exc, out |-> r.out]

NotValidated ==
    [called |-> FALSE, exc |-> "", validated |-> << >>, errors |-> << >>, logged |-> << >>]

NoArgs == [lookup |-> [exc |-> "Exception", schema |-> ModelSchema("x.model", << >>, 0)],
           values |-> PyDict(<< >>), operation |-> "write"]

\* op: the operation; fetched: it called the remote; lookup_exc: what its schema lookup
\* raised; exc: what the call raised; ret: the schema object it returned or worked on
NoCall ==
    [op |-> "none", model |-> "", force_reload |-> FALSE, values |-> PyDict(<< >>),
     fetched |-> FALSE, lookup_exc |-> "", exc |-> "", ret |-> 0,
     validated |-> << >>, errors |-> << >>, lines |-> << >>]

NormIdle == filters = PyNone /\ normalized = NotCalled

\* a response of process_message; "" and 0 stand for None
Response(type) ==
    [type |-> type, operation |-> "", model |-> "", record_id |-> 0, values |-> PyNone,
     method |-> "", message_body |-> ""]

\* no pending action, no response
NoResponse == Response("")

\* what the intent router answers: "" and 0 stand for None
IntentResult(intent, model) ==
    [intent |-> intent, model |-> model, record_id |-> 0, values |-> PyNone, method |-> "",
     message |-> ""]

\* the result of execute_confirmed_action and the remote calls it issued: `calls` names
\* their methods, `sent` holds what execute_method was given for each
ActionResult(success, calls, validation_errors) ==
    [success |-> success, calls |-> calls, validation_errors |-> validation_errors,
     sent |-> << >>]

\* self.odoo.execute_method(model, method, *args, **kwargs)
RemoteCall(model, method, args, kwargs) ==
    [model |-> model, method |-> method, args |-> args, kwargs |-> kwargs]

\* ui: "chat" or "rest"; user_input: the chat message taken for a yes or a no; confirm:
\* the caller confirmed (request.confirm, or a yes in the chat); processed: process_message
\* ran, on the intent `intent`, answered `response` and issued `calls`; executed:
\* execute_confirmed_action ran on `action_data` and returned `result`; validation: what
\* validate_and_convert returned to it, if it was called; session_at_call: the chat
\* session's pending_action when execute_confirmed_action was called
NoTurn ==
    [ui |-> "", user_input |-> "", confirm |-> FALSE, processed |-> FALSE,
     intent |-> "", response |-> NoResponse, calls |-> << >>,
     executed |-> FALSE, action_data |-> NoResponse, session_at_call |-> NoResponse,
     validation |-> NotValidated,
     result |-> ActionResult(FALSE, << >>, << >>)]

AgentIdle == read_only_mode = FALSE /\ pending_action = NoResponse /\ turn = NoTurn

\* an operation on the TTLCache: ret is what it returned, removed the keys it took out
TTLCall(op, key, ret, removed) == [op |-> op, key |-> key, ret |-> ret, removed |-> removed]

\* TTLCache.__init__
TTLCache(max_size) == [max_size |-> max_size, _cache |-> << >>, hits |-> 0, misses |-> 0]

TTLIdle == ttl_cache = TTLCache(1) /\ recency = << >> /\ ttl_call = TTLCall("none", "", PyNone, {})

ValIdle == vargs = NoArgs /\ vresult = NotValidated

\* the cache after construction; the remote serves some version of every model
CacheNew ==
    /\ _cache = [m \in Models |-> 0]
    /\ heap = << >>
    /\ now = 0
    /\ remote \in RemoteVersions
    /\ call = NoCall

CacheIdle ==
    /\ _cache = [m \in Models |-> 0]
    /\ heap = << >>
    /\ now = 0
    /\ remote = 1
    /\ call = NoCall

(***************************************************************************)
(* Specification of the filter normalizer: one call on an arbitrary input  *)
(***************************************************************************)
NormInit ==
    /\ filters \in RawFilters
    /\ normalized = NotCalled
    /\ ValIdle
    /\ CacheIdle
    /\ ThrIdle
    /\ AgentIdle
    /\ TTLIdle

Normalize ==
    /\ ~normalized.called
    /\ normalized' = Outcome(_normalize_domain_filters(filters))
    /\ UNCHANGED <<filters, valVars, cacheVars, thrVars, agentVars, ttlVars>>

NormNext == Normalize

SpecNorm == NormInit /\ [][NormNext]_vars

(***************************************************************************)
(* Specification of the validator on a given schema lookup: one call with  *)
(* an arbitrary field definition, payload and operation                    *)
(***************************************************************************)
ValInit ==
    /\ vargs \in [lookup : SchemaLookups, values : Payloads, operation : Operations]
    /\ vresult = NotValidated
    /\ NormIdle
    /\ CacheIdle
    /\ ThrIdle
    /\ AgentIdle
    /\ TTLIdle

Validate ==
    /\ ~vresult.called
    /\ vresult' = [called |-> TRUE] @@ validate_and_convert(vargs.lookup, vargs.values,
                                                            vargs.operation)
    /\ UNCHANGED <<vargs, normVars, cacheVars, thrVars, agentVars, ttlVars>>

ValNext == Validate

SpecVal == ValInit /\ [][ValNext]_vars

(***************************************************************************)
(* Specification of the schema cache and of the validator on top of it:    *)
(* calls run one at a time, the clock and the remote move in between       *)
(***************************************************************************)
Idle == call.op = "none"

CachePayloads ==
    {PyDict(<<KV("name", S("SO1")), KV("state", S("done")), KV("amount_total", S("1 234,56"))>>),
     PyDict(<<KV("unknown_xyz", PyInt(1)), KV("name", S("Acme")),
              KV("category_id", PyList(<<PyInt(1), S("2")>>))>>)}

Init == CacheNew /\ NormIdle /\ ValIdle /\ ThrIdle /\ AgentIdle /\ TTLIdle

\* time passes
Tick ==
    /\ Idle
    /\ now < MaxTime
    /\ now' = now + 1
    /\ UNCHANGED <<_cache, heap, remote, call, normVars, valVars, thrVars, agentVars, ttlVars>>

\* the remote's field definitions change
RemoteChange ==
    \E v \in RemoteVersions :
        /\ Idle
        /\ remote # v
        /\ remote' = v
        /\ UNCHANGED <<_cache, heap, now, call, normVars, valVars, thrVars, agentVars, ttlVars>>

\* schema_cache.get_model_schema(model, force_reload); the fetch, if there is one, succeeds
\* (ok) or fails
GetModelSchema ==
    \E m \in Models, force_reload \in BOOLEAN, ok \in BOOLEAN :
        LET r == get_model_schema(_cache, heap, now, m, force_reload,
                                  [ok |-> ok, ver |-> remote])
        IN /\ Idle
           /\ r.fetched \/ ok
           /\ Len(r.heap) <= MaxObjs
           /\ _cache' = r.cache
           /\ heap' = r.heap
           /\ call' = [NoCall EXCEPT !.op = "get_model_schema", !.model = m,
                                     !.force_reload = force_reload, !.fetched = r.fetched,
                                     !.lookup_exc = r.exc, !.exc = r.exc, !.ret = r.ret]
           /\ UNCHANGED <<now, remote, normVars, valVars, thrVars, agentVars, ttlVars>>

\* schema_cache.invalidate(model) and invalidate()
Invalidate ==
    \E m \in Models \cup {""} :
        /\ Idle
        /\ _cache' = invalidate(_cache, m)
        /\ call' = [NoCall EXCEPT !.op = "invalidate", !.model = m]
        /\ UNCHANGED <<heap, now, remote, normVars, valVars, thrVars, agentVars, ttlVars>>

\* validator.validate_and_convert(model, values) on the shared cache
ValidateAndConvert ==
    /\ Idle
    /\ \E m \in Models, values \in CachePayloads, ok \in BOOLEAN :
        \E r \in {get_model_schema(_cache, heap, now, m, FALSE, [ok |-> ok, ver |-> remote])} :
            /\ r.fetched \/ ok
            /\ Len(r.heap) <= MaxObjs
            /\ \E v \in {validate_and_convert(
                             [exc |-> r.exc,
                              schema |-> IF r.exc = "" THEN r.heap[r.ret]
                                         ELSE ModelSchema(m, << >>, 0)],
                             values, "write")} :
                   /\ _cache' = r.cache
                   /\ heap' = r.heap
                   /\ call' = [NoCall EXCEPT !.op = "validate_and_convert", !.model = m,
                                             !.values = values, !.fetched = r.fetched,
                                             !.lookup_exc = r.exc, !.ret = r.ret,
                                             !.exc = v.exc, !.validated = v.validated,
                                             !.errors = v.errors]
                   /\ UNCHANGED <<now, remote, normVars, valVars, thrVars, agentVars, ttlVars>>

\* a reader formats a schema object it was handed earlier
FormatForPrompt ==
    \E id \in 1..Len(heap), max_fields \in {2, 25} :
        /\ Idle
        /\ call' = [NoCall EXCEPT !.op = "format_for_prompt", !.model = heap[id].model,
                                  !.ret = id,
                                  !.lines = format_for_prompt(heap[id], << >>, max_fields)]
        /\ UNCHANGED <<_cache, heap, now, remote, normVars, valVars, thrVars, agentVars, ttlVars>>

\* the caller takes the result of the call
Return ==
    /\ ~Idle
    /\ call' = NoCall
    /\ UNCHANGED <<_cache, heap, now, remote, normVars, valVars, thrVars, agentVars, ttlVars>>

Next ==
    \/ Tick
    \/ RemoteChange
    \/ GetModelSchema
    \/ Invalidate
    \/ ValidateAndConvert
    \/ FormatForPrompt
    \/ Return

Spec == Init /\ [][Next]_vars

(***************************************************************************)
(* Specification of concurrent get_model_schema calls: each thread runs    *)
(* the method statement by statement; the cache is invalidated only while  *)
(* no call is running                                                      *)
(***************************************************************************)
ConcInit == CacheNew /\ NormIdle /\ ValIdle /\ ThrIdle /\ AgentIdle /\ TTLIdle

\* the concurrent calls are all for the same entity type
ConcModels == {"sale.order"}

Quiet == \A t \in Threads : thr[t].pc = "idle"

\* thread t calls get_model_schema(m, force_reload): `not force_reload and ...`
TCall(t) ==
    \E m \in ConcModels, force_reload \in BOOLEAN :
        /\ thr[t].pc = "idle"
        /\ thr' = [thr EXCEPT ![t] = [ThreadIdle EXCEPT
                      !.pc = IF force_reload THEN "fetch" ELSE "check_in",
                      !.model = m, !.force_reload = force_reload]]
        /\ UNCHANGED <<served, lastStore, cacheVars, normVars, valVars, agentVars, ttlVars>>

\* _is_cached: `if model not in self._cache: return False`
TCheckIn(t) ==
    /\ thr[t].pc = "check_in"
    /\ thr' = [thr EXCEPT ![t].pc = IF _cache[thr[t].model] = 0 THEN "fetch" ELSE "check_age"]
    /\ UNCHANGED <<served, lastStore, cacheVars, normVars, valVars, agentVars, ttlVars>>

\* _is_cached: `schema = self._cache[model]; age = time.time() - schema.loaded_at`
TCheckAge(t) ==
    /\ thr[t].pc = "check_age"
    /\ thr' = [thr EXCEPT ![t] =
                  IF _cache[thr[t].model] = 0
                  THEN [thr[t] EXCEPT !.pc = "done", !.exc = "KeyError"]
                  ELSE [thr[t] EXCEPT !.pc =
                           IF now - heap[_cache[thr[t].model]].loaded_at < cache_ttl
                           THEN "hit" ELSE "fetch"]]
    /\ UNCHANGED <<served, lastStore, cacheVars, normVars, valVars, agentVars, ttlVars>>

\* `return self._cache[model]`
THit(t) ==
    /\ thr[t].pc = "hit"
    /\ thr' = [thr EXCEPT ![t] =
                  IF _cache[thr[t].model] = 0
                  THEN [thr[t] EXCEPT !.pc = "done", !.exc = "KeyError"]
                  ELSE [thr[t] EXCEPT !.pc = "done", !.ret = _cache[thr[t].model]]]
    /\ UNCHANGED <<served, lastStore, cacheVars, normVars, valVars, agentVars, ttlVars>>

\* `fields_data = self.odoo.execute_method(model, 'fields_get', ...)` answers or raises
TFetch(t) ==
    \E ok \in BOOLEAN :
        /\ thr[t].pc = "fetch"
        /\ thr' = [thr EXCEPT ![t] =
                      IF ok THEN [thr[t] EXCEPT !.pc = "parse", !.fetch = "ok", !.data = remote]
                      ELSE [thr[t] EXCEPT !.pc = "done", !.fetch = "failed",
                                          !.exc = "Exception"]]
        /\ served' = IF ok THEN served \cup {<<thr[t].model, remote>>} ELSE served
        /\ UNCHANGED <<lastStore, cacheVars, normVars, valVars, agentVars, ttlVars>>

\* `schema = self._parse_fields(model, fields_data)`: a new object, stamped with the time
TParse(t) ==
    /\ thr[t].pc = "parse"
    /\ Len(heap) < MaxObjs
    /\ heap' = Append(heap, _parse_fields(thr[t].model, FieldsData(thr[t].model, thr[t].data),
                                          now))
    /\ thr' = [thr EXCEPT ![t].pc = "store", ![t].obj = Len(heap) + 1]
    /\ UNCHANGED <<_cache, now, remote, call, served, lastStore, normVars, valVars, agentVars, ttlVars>>

\* a store that keeps the entry another thread has written meanwhile
TStore_FirstWriterWins(t) ==
    /\ thr[t].pc = "store"
    /\ _cache' = IF _cache[thr[t].model] = 0 THEN [_cache EXCEPT ![thr[t].model] = thr[t].obj]
                 ELSE _cache
    /\ lastStore' = [lastStore EXCEPT ![thr[t].model] = thr[t].obj]
    /\ thr' = [thr EXCEPT ![t].pc = "done", ![t].ret = thr[t].obj]
    /\ UNCHANGED <<heap, now, remote, call, served, normVars, valVars, agentVars, ttlVars>>

\* `self._cache[model] = schema; return schema`
TStore(t) ==
    /\ thr[t].pc = "store"
    /\ _cache' = [_cache EXCEPT ![thr[t].model] = thr[t].obj]
    /\ lastStore' = [lastStore EXCEPT ![thr[t].model] = thr[t].obj]
    /\ thr' = [thr EXCEPT ![t].pc = "done", ![t].ret = thr[t].obj]
    /\ UNCHANGED <<heap, now, remote, call, served, normVars, valVars, agentVars, ttlVars>>

\* the caller of thread t takes the result
TReturn(t) ==
    /\ thr[t].pc = "done"
    /\ thr' = [thr EXCEPT ![t] = ThreadIdle]
    /\ UNCHANGED <<served, lastStore, cacheVars, normVars, valVars, agentVars, ttlVars>>

\* invalidate(model) or invalidate() while no get_model_schema call is running
QuietInvalidate ==
    \E m \in ConcModels \cup {""} :
        /\ Quiet
        /\ _cache' = invalidate(_cache, m)
        /\ lastStore' = [x \in Models |-> IF m \in {"", x} THEN 0 ELSE lastStore[x]]
        /\ UNCHANGED <<heap, now, remote, call, thr, served, normVars, valVars, agentVars, ttlVars>>

ConcNext ==
    \/ Tick
    \/ RemoteChange
    \/ QuietInvalidate
    \/ \E t \in Threads : TCall(t)
    \/ \E t \in Threads : TCheckIn(t)
    \/ \E t \in Threads : TCheckAge(t)
    \/ \E t \in Threads : THit(t)
    \/ \E t \in Threads : TFetch(t)
    \/ \E t \in Threads : TParse(t)
    \/ \E t \in Threads : TStore(t)
    \/ \E t \in Threads : TReturn(t)

SpecConc == ConcInit /\ [][ConcNext]_vars

(***************************************************************************)
(* The same calls with invalidate running at any moment: the class takes   *)
(* no lock, so a pop or a clear may fall between two statements of a       *)
(* get_model_schema call of another thread                                 *)
(***************************************************************************)
\* invalidate(model) or invalidate(), whatever the other threads are doing
ConcurrentInvalidate ==
    \E m \in ConcModels \cup {""} :
        /\ _cache' = invalidate(_cache, m)
        /\ lastStore' = [x \in Models |-> IF m \in {"", x} THEN 0 ELSE lastStore[x]]
        /\ UNCHANGED <<heap, now, remote, call, thr, served, normVars, valVars, agentVars,
                       ttlVars>>

RaceNext ==
    \/ Tick
    \/ RemoteChange
    \/ ConcurrentInvalidate
    \/ \E t \in Threads : TCall(t)
    \/ \E t \in Threads : TCheckIn(t)
    \/ \E t \in Threads : TCheckAge(t)
    \/ \E t \in Threads : THit(t)
    \/ \E t \in Threads : TFetch(t)
    \/ \E t \in Threads : TParse(t)
    \/ \E t \in Threads : TStore(t)
    \/ \E t \in Threads : TReturn(t)

SpecRace == ConcInit /\ [][RaceNext]_vars

(***************************************************************************)
(* The agent behind the chat UI and the REST endpoint: process_message     *)
(* turns a routed intent into a response, execute_confirmed_action runs a  *)
(* confirmed response against the remote.  A remote call is recorded by    *)
(* the name of its method and, for a confirmed action, by its arguments.   *)
(***************************************************************************)
AgentValues ==
    {PyNone, PyDict(<<KV("name", S("Acme"))>>), PyDict(<<KV("create_date", S("2025-01-02"))>>),
     PyDict(<<KV("category_id", PyList(<<PyInt(1), S("2")>>))>>)}

\* the answers of the intent router: each intent with the parameters its handler reads,
\* complete and with one of them missing
IntentResults ==
    {IntentResult(i, m) :
         i \in {"QUERY", "SCHEMA_QUERY"}, m \in {"", "res.partner"}}
    \cup {IntentResult(i, "res.partner") : i \in {"METADATA", "CHAT", "ATTACH", "GREETING"}}
    \cup {[IntentResult(i, "res.partner") EXCEPT !.record_id = 5, !.values = v] :
              i \in {"CREATE", "UPDATE"}, v \in AgentValues}
    \cup {[IntentResult(i, "") EXCEPT !.record_id = 5, !.values = v] :
              i \in {"CREATE", "UPDATE"}, v \in {PyDict(<<KV("name", S("Acme"))>>)}}
    \cup {[IntentResult(i, m) EXCEPT !.record_id = id, !.method = "action_confirm",
                                     !.message = "hello"] :
              i \in {"DELETE", "ACTION", "MESSAGE"}, m \in {"", "res.partner"}, id \in {0, 5}}
    \cup {[IntentResult("ACTION", "res.partner") EXCEPT !.record_id = 5],
          [IntentResult("UPDATE", "res.partner") EXCEPT
               !.values = PyDict(<<KV("name", S("Acme"))>>)],
          [IntentResult("MESSAGE", "res.partner") EXCEPT !.record_id = 5]}

UserInputs == {"yes", " Confirm", "no", "delete partner 5"}

_handle_create(model, parameters) ==
    IF read_only_mode THEN Response("error")
    ELSE IF model = "" THEN Response("clarification")
    ELSE IF ~Truthy(parameters.values) THEN Response("clarification")
    ELSE [Response("confirmation_required") EXCEPT
              !.operation = "create", !.model = model, !.values = parameters.values]

_handle_update(model, parameters) ==
    IF read_only_mode THEN Response("error")
    ELSE [Response("confirmation_required") EXCEPT
              !.operation = "update", !.model = model, !.record_id = parameters.record_id,
              !.values = parameters.values]

\* the delete handler without its read-only check
_handle_delete_NoReadOnlyCheck(model, parameters) ==
    [Response("confirmation_required") EXCEPT
         !.operation = "delete", !.model = model, !.record_id = parameters.record_id]

_handle_delete(model, parameters) ==
    IF read_only_mode THEN Response("error")
    ELSE [Response("confirmation_required") EXCEPT
              !.operation = "delete", !.model = model, !.record_id = parameters.record_id]

_handle_action(model, parameters) ==
    IF read_only_mode THEN Response("error")
    ELSE [Response("confirmation_required") EXCEPT
              !.operation = "action", !.model = model, !.record_id = parameters.record_id,
              !.method = parameters.method]

_handle_message(model, parameters) ==
    IF read_only_mode THEN Response("error")
    ELSE IF model = "" \/ parameters.record_id = 0 \/ parameters.message = ""
    THEN Response("clarification")
    ELSE [Response("confirmation_required") EXCEPT
              !.operation = "message", !.model = model, !.record_id = parameters.record_id,
              !.message_body = parameters.message]

_handle_attach(model, parameters) ==
    IF read_only_mode THEN Response("error") ELSE Response("clarification")

\* the response of a handler that reads the remote: its answer, or an error if the read failed
ReadResponse(model, type, ok) ==
    IF ~ok THEN Response("error") ELSE [Response(type) EXCEPT !.model = model]

\* process_message that writes an update at once
process_message_WritesAtOnce(intent_result, lookup_exc, ok) ==
    LET intent == intent_result.intent
        model == intent_result.model
        Answer(response, calls) == [response |-> response, calls |-> calls]
    IN CASE intent = "QUERY" ->
                IF model = "" THEN Answer(Response("clarification"), << >>)
                ELSE Answer(ReadResponse(model, "query_result", ok),
                            <<"search_count", "search_read">>)
         [] intent = "CREATE" -> Answer(_handle_create(model, intent_result), << >>)
         [] intent = "UPDATE" -> Answer(_handle_update(model, intent_result), <<"write">>)
         [] intent = "DELETE" -> Answer(_handle_delete(model, intent_result), << >>)
         [] intent = "ACTION" -> Answer(_handle_action(model, intent_result), << >>)
         [] intent = "METADATA" -> Answer(ReadResponse("", "metadata", ok), <<"get_models">>)
         [] intent = "SCHEMA_QUERY" ->
                IF model = "" THEN Answer(Response("clarification"), << >>)
                ELSE Answer(ReadResponse(model, "schema_info", lookup_exc = ""), << >>)
         [] intent = "CHAT" -> Answer(Response("chat"), << >>)
         [] intent = "MESSAGE" -> Answer(_handle_message(model, intent_result), << >>)
         [] intent = "ATTACH" -> Answer(_handle_attach(model, intent_result), << >>)
         [] OTHER -> Answer(Response("error"), << >>)

\* process_message on a routed intent: [response, calls].  lookup_exc is what the schema
\* lookup of a schema query raised, ok whether the remote answered the handler's reads
process_message(intent_result, lookup_exc, ok) ==
    LET intent == intent_result.intent
        model == intent_result.model
        Answer(response, calls) == [response |-> response, calls |-> calls]
    IN CASE intent = "QUERY" ->
                IF model = "" THEN Answer(Response("clarification"), << >>)
                ELSE Answer(ReadResponse(model, "query_result", ok),
                            <<"search_count", "search_read">>)
         [] intent = "CREATE" -> Answer(_handle_create(model, intent_result), << >>)
         [] intent = "UPDATE" -> Answer(_handle_update(model, intent_result), << >>)
         [] intent = "DELETE" -> Answer(_handle_delete(model, intent_result), << >>)
         [] intent = "ACTION" -> Answer(_handle_action(model, intent_result), << >>)
         [] intent = "METADATA" -> Answer(ReadResponse("", "metadata", ok), <<"get_models">>)
         [] intent = "SCHEMA_QUERY" ->
                IF model = "" THEN Answer(Response("clarification"), << >>)
                ELSE Answer(ReadResponse(model, "schema_info", lookup_exc = ""), << >>)
         [] intent = "CHAT" -> Answer(Response("chat"), << >>)
         [] intent = "MESSAGE" -> Answer(_handle_message(model, intent_result), << >>)
         [] intent = "ATTACH" -> Answer(_handle_attach(model, intent_result), << >>)
         [] OTHER -> Answer(Response("error"), << >>)

\* execute_confirmed_action that sends the values as they were given
execute_confirmed_action_SendsRawValues(action_data, validation, ok) ==
    LET operation == action_data.operation
        model == action_data.model
        record_id == action_data.record_id
        values == action_data.values
        ids == PyList(<<PyList(<<PyInt(record_id)>>)>>)
        Missing == ActionResult(FALSE, << >>, << >>)
        Called(method, args, kwargs) ==
            [ActionResult(ok, <<method>>, << >>) EXCEPT
                 !.sent = <<RemoteCall(model, method, args, kwargs)>>]
    IN IF validation.exc # "" THEN Missing
       ELSE IF Len(validation.errors) > 0 THEN ActionResult(FALSE, << >>, validation.errors)
       ELSE IF operation = "create" THEN
           (IF model = "" \/ Len(validation.validated) = 0 THEN Missing
            ELSE Called("create", <<PyList(<<values>>)>>, << >>))
       ELSE IF operation = "update" THEN
           (IF model = "" \/ record_id = 0 \/ Len(validation.validated) = 0 THEN Missing
            ELSE Called("write", <<PyList(<<PyInt(record_id)>>), values>>, << >>))
       ELSE IF operation = "delete" THEN
           (IF model = "" \/ record_id = 0 THEN Missing ELSE Called("unlink", <<ids>>, << >>))
       ELSE IF operation = "action" THEN
           (IF model = "" \/ record_id = 0 \/ action_data.method = "" THEN Missing
            ELSE Called(action_data.method, <<ids>>, << >>))
       ELSE IF operation = "message" THEN
           (IF model = "" \/ record_id = 0 \/ action_data.message_body = "" THEN Missing
            ELSE Called("message_post", <<ids>>,
                        <<KV("body", PyStr(action_data.message_body)),
                          KV("message_type", PyStr("comment"))>>))
       ELSE Missing

\* execute_confirmed_action on the data of a response.  validation is the outcome of
\* validate_and_convert when the operation validates its values, the values as they are
\* otherwise; ok tells whether the remote accepted the call
execute_confirmed_action(action_data, validation, ok) ==
    LET operation == action_data.operation
        model == action_data.model
        record_id == action_data.record_id
        values == PyDict(validation.validated)
        ids == PyList(<<PyList(<<PyInt(record_id)>>)>>)
        Missing == ActionResult(FALSE, << >>, << >>)
        Called(method, args, kwargs) ==
            [ActionResult(ok, <<method>>, << >>) EXCEPT
                 !.sent = <<RemoteCall(model, method, args, kwargs)>>]
    IN IF validation.exc # "" THEN Missing
       ELSE IF Len(validation.errors) > 0 THEN ActionResult(FALSE, << >>, validation.errors)
       ELSE IF operation = "create" THEN
           (IF model = "" \/ Len(validation.validated) = 0 THEN Missing
            ELSE Called("create", <<PyList(<<values>>)>>, << >>))
       ELSE IF operation = "update" THEN
           (IF model = "" \/ record_id = 0 \/ Len(validation.validated) = 0 THEN Missing
            ELSE Called("write", <<PyList(<<PyInt(record_id)>>), values>>, << >>))
       ELSE IF operation = "delete" THEN
           (IF model = "" \/ record_id = 0 THEN Missing ELSE Called("unlink", <<ids>>, << >>))
       ELSE IF operation = "action" THEN
           (IF model = "" \/ record_id = 0 \/ action_data.method = "" THEN Missing
            ELSE Called(action_data.method, <<ids>>, << >>))
       ELSE IF operation = "message" THEN
           (IF model = "" \/ record_id = 0 \/ action_data.message_body = "" THEN Missing
            ELSE Called("message_post", <<ids>>,
                        <<KV("body", PyStr(action_data.message_body)),
                          KV("message_type", PyStr("comment"))>>))
       ELSE Missing

\* whether execute_confirmed_action validates the values of this response
Validates(action_data) ==
    Truthy(action_data.values) /\ action_data.operation \in {"create", "update"}

\* the schema lookup a request makes, if it makes one, and the agent's cache after it.
\* The chat session keeps one agent; every REST request builds its own, whose cache
\* starts empty and is dropped with it.  A model the remote does not know makes the
\* fetch fail
SchemaLookup(ui, model, needed, fetch_ok) ==
    IF needed /\ model \in Models THEN
        LET Found(r) == [exc |-> r.exc,
                         schema |-> IF r.exc = "" THEN r.heap[r.ret]
                                    ELSE ModelSchema(model, << >>, 0),
                         cache |-> IF ui = "chat" THEN r.cache ELSE _cache,
                         heap |-> IF ui = "chat" THEN r.heap ELSE heap]
        IN Found(get_model_schema(IF ui = "chat" THEN _cache ELSE [m \in Models |-> 0],
                                  IF ui = "chat" THEN heap ELSE << >>, now, model, FALSE,
                                  [ok |-> fetch_ok, ver |-> remote]))
    ELSE [exc |-> "Exception", schema |-> ModelSchema(model, << >>, 0), cache |-> _cache,
          heap |-> heap]

\* the values of a response as execute_confirmed_action takes them
ValuesOf(action_data, lookup) ==
    IF Validates(action_data)
    THEN validate_and_convert([exc |-> lookup.exc, schema |-> lookup.schema],
                              action_data.values, action_data.operation)
    ELSE ValidationResult(IF action_data.values.k = "dict" THEN action_data.values.kv
                          ELSE << >>, << >>)

\* handle_confirmation_command: "True", "False" or "None"
handle_confirmation_command(user_input) ==
    IF Lower(Strip(user_input)) \in {"yes", "y", "confirm", "ok", "proceed"} THEN "True"
    ELSE IF Lower(Strip(user_input)) \in {"no", "n", "cancel", "abort"} THEN "False"
    ELSE "None"

\* the messages on_message takes for a yes, for a no, and for neither
Confirming == {u \in UserInputs : handle_confirmation_command(u) = "True"}

Cancelling == {u \in UserInputs : handle_confirmation_command(u) = "False"}

Ordinary == {u \in UserInputs : handle_confirmation_command(u) = "None"}

AgentInit ==
    /\ read_only_mode \in BOOLEAN
    /\ pending_action = NoResponse
    /\ turn = NoTurn
    /\ CacheIdle
    /\ NormIdle
    /\ ValIdle
    /\ ThrIdle
    /\ TTLIdle

\* the confirmations the chat session can give now: a pending action and a message that
\* handle_confirmation_command takes for a yes (chainlit_app.execute_pending_action)
ChatConfirmations ==
    IF pending_action = NoResponse THEN {}
    ELSE {[NoTurn EXCEPT !.ui = "chat", !.user_input = user_input, !.confirm = TRUE,
                         !.action_data = pending_action] :
              user_input \in Confirming}

\* the confirmations a REST request can carry: confirm is set and process_message answers
\* that confirmation is required (rest.action)
RestConfirmations ==
    {[NoTurn EXCEPT !.ui = "rest", !.confirm = TRUE, !.processed = TRUE,
                    !.intent = intent_result.intent,
                    !.response = process_message(intent_result, "", TRUE).response,
                    !.action_data = process_message(intent_result, "", TRUE).response] :
         intent_result \in
             {i \in IntentResults :
                  process_message(i, "", TRUE).response.type = "confirmation_required"}}

\* execute_pending_action that leaves the pending action in the session
ClearPending_KeepsPending(request) == pending_action

\* the chat session's pending_action once a confirmed request is about to be executed:
\* execute_pending_action sets it to None, a REST request has no part in the session
ClearPending(request) == IF request.ui = "chat" THEN NoResponse ELSE pending_action

\* a confirmed request reaches execute_confirmed_action: in the chat the pending action is
\* cleared first, a REST request leaves the chat session alone
ExecuteConfirmed ==
    \E request \in ChatConfirmations \cup RestConfirmations, fetch_ok \in BOOLEAN,
       ok \in BOOLEAN :
        \E lookup \in {SchemaLookup(request.ui, request.action_data.model,
                                    Validates(request.action_data), fetch_ok)} :
            \E validation \in {ValuesOf(request.action_data, lookup)} :
                /\ Len(lookup.heap) <= MaxObjs
                /\ _cache' = lookup.cache
                /\ heap' = lookup.heap
                /\ pending_action' = ClearPending(request)
                /\ turn' = [request EXCEPT
                                !.executed = TRUE,
                                !.session_at_call = ClearPending(request),
                                !.validation = IF Validates(request.action_data)
                                               THEN [called |-> TRUE] @@ validation
                                               ELSE NotValidated,
                                !.result = execute_confirmed_action(request.action_data,
                                                                    validation, ok)]
                /\ UNCHANGED <<read_only_mode, now, remote, call, normVars, valVars,
                               thrVars, ttlVars>>

\* a request runs process_message and no more
Processes(ui, user_input, confirm, intent_result, ok) ==
    \E lookup \in {SchemaLookup(ui, intent_result.model,
                                intent_result.intent = "SCHEMA_QUERY", ok)} :
        \E answer \in {process_message(intent_result, lookup.exc, ok)} :
            /\ Len(lookup.heap) <= MaxObjs
            /\ _cache' = lookup.cache
            /\ heap' = lookup.heap
            /\ turn' = [NoTurn EXCEPT
                            !.ui = ui, !.user_input = user_input, !.confirm = confirm,
                            !.processed = TRUE,
                            !.intent = intent_result.intent,
                            !.response = answer.response, !.calls = answer.calls]

\* chainlit_app.on_message with a pending action that the user cancels
ChatCancel ==
    /\ pending_action # NoResponse
    /\ \E user_input \in Cancelling :
           /\ pending_action' = NoResponse
           /\ turn' = [NoTurn EXCEPT !.ui = "chat", !.user_input = user_input]
           /\ UNCHANGED <<read_only_mode, cacheVars, normVars, valVars, thrVars, ttlVars>>

\* chainlit_app.on_message otherwise: the message is routed and processed, and a response
\* that requires confirmation becomes the pending action
ChatMessage ==
    \E user_input \in IF pending_action = NoResponse THEN UserInputs ELSE Ordinary :
        \E intent_result \in IntentResults, ok \in BOOLEAN :
           /\ Processes("chat", user_input, FALSE, intent_result, ok)
           /\ pending_action' = IF turn'.response.type = "confirmation_required"
                                THEN turn'.response ELSE pending_action
           /\ UNCHANGED <<read_only_mode, now, remote, call, normVars, valVars, thrVars, ttlVars>>

\* rest.action without a confirmation to act on: the response of process_message is what
\* the request returns
RestAnswered ==
    \E intent_result \in IntentResults, confirm \in BOOLEAN, ok \in BOOLEAN :
        /\ Processes("rest", "", confirm, intent_result, ok)
        /\ confirm => turn'.response.type # "confirmation_required"
        /\ UNCHANGED <<read_only_mode, pending_action, now, remote, call, normVars,
                       valVars, thrVars, ttlVars>>

AgentNext ==
    \/ ExecuteConfirmed
    \/ ChatCancel
    \/ ChatMessage
    \/ RestAnswered

SpecAgent == AgentInit /\ [][AgentNext]_vars

(***************************************************************************)
(* TTLCache (src/src/utils/cache.py).  The OrderedDict is a sequence of    *)
(* entries in its order, oldest first; every method holds the lock for its *)
(* whole body, so each is one step.  The clock is `now`.                   *)
(***************************************************************************)
\* ttl_seconds of the cache
ttl_seconds == 1

\* the caches have max_size 1..MaxSize
MaxSize == 2

\* get is called while hits + misses is below MaxLookups
MaxLookups == 3

TTLKeys == {"a", "ab", "b"}

TTLValues == {1, 2}

TTLPatterns == {"a"}

KeysOf(entries) == {entries[n].key : n \in 1..Len(entries)}

\* the entries without those of the given keys, in order
Without(entries, keys) == SelectSeq(entries, LAMBDA e : e.key \notin keys)

EntryOf(entries, key) == entries[CHOOSE n \in 1..Len(entries) : entries[n].key = key]

\* get that leaves a hit where it is in the order
TTLCache_get_NoMoveToEnd(self, time, key) ==
    IF key \notin KeysOf(self._cache)
    THEN [self |-> [self EXCEPT !.misses = @ + 1], ret |-> PyNone]
    ELSE IF time - EntryOf(self._cache, key).timestamp > ttl_seconds
    THEN [self |-> [self EXCEPT !._cache = Without(@, {key}), !.misses = @ + 1],
          ret |-> PyNone]
    ELSE [self |-> [self EXCEPT !.hits = @ + 1],
          ret |-> PyInt(EntryOf(self._cache, key).value)]

\* TTLCache.get: the cache after the call and the value returned
TTLCache_get(self, time, key) ==
    IF key \notin KeysOf(self._cache)
    THEN [self |-> [self EXCEPT !.misses = @ + 1], ret |-> PyNone]
    ELSE IF time - EntryOf(self._cache, key).timestamp > ttl_seconds
    THEN [self |-> [self EXCEPT !._cache = Without(@, {key}), !.misses = @ + 1],
          ret |-> PyNone]
    ELSE [self |-> [self EXCEPT !._cache = Append(Without(@, {key}), EntryOf(@, key)),
                                !.hits = @ + 1],
          ret |-> PyInt(EntryOf(self._cache, key).value)]

\* TTLCache.set
TTLCache_set(self, time, key, value) ==
    LET kept == IF /\ self.max_size # 0
                   /\ Len(self._cache) >= self.max_size
                   /\ key \notin KeysOf(self._cache)
                THEN Tail(self._cache)
                ELSE self._cache
    IN [self EXCEPT !._cache = Append(Without(kept, {key}),
                                      [key |-> key, value |-> value, timestamp |-> time])]

\* TTLCache.invalidate
TTLCache_invalidate(self, key) == [self EXCEPT !._cache = Without(@, {key})]

\* TTLCache.invalidate_pattern: the cache after the call and the number of keys removed
TTLCache_invalidate_pattern(self, pattern) ==
    LET keys_to_remove == {k \in KeysOf(self._cache) :
                               /\ Len(k) >= Len(pattern)
                               /\ SubSeq(k, 1, Len(pattern)) = pattern}
    IN [self |-> [self EXCEPT !._cache = Without(@, keys_to_remove)],
        ret |-> PyInt(Cardinality(keys_to_remove))]

\* TTLCache.clear
TTLCache_clear(self) == [self EXCEPT !._cache = << >>]

\* the recency order after an operation: a key that was used moves to the end, the keys
\* that left the cache leave the order
Used(order, used, self) ==
    SelectSeq(SelectSeq(order, LAMBDA k : k \notin used) \o
                  (IF used = {} THEN << >> ELSE <<CHOOSE k \in used : TRUE>>),
              LAMBDA k : k \in KeysOf(self._cache))

\* the state after an operation that left the cache as `self` and returned ret
TTLDone(op, key, ret, used, self) ==
    /\ ttl_cache' = self
    /\ ttl_call' = TTLCall(op, key, ret, KeysOf(ttl_cache._cache) \ KeysOf(self._cache))
    /\ recency' = Used(recency, used, self)
    /\ UNCHANGED <<normVars, valVars, cacheVars, thrVars, agentVars>>

TTLInit ==
    /\ ttl_cache \in {TTLCache(max_size) : max_size \in 1..MaxSize}
    /\ recency = << >>
    /\ ttl_call = TTLCall("none", "", PyNone, {})
    /\ NormIdle
    /\ ValIdle
    /\ CacheIdle
    /\ ThrIdle
    /\ AgentIdle

TTLGet ==
    /\ ttl_cache.hits + ttl_cache.misses < MaxLookups
    /\ \E key \in TTLKeys :
           \E r \in {TTLCache_get(ttl_cache, now, key)} :
               TTLDone("get", key, r.ret, IF r.self.hits > ttl_cache.hits THEN {key} ELSE {},
                       r.self)

TTLSet ==
    \E key \in TTLKeys, value \in TTLValues :
        TTLDone("set", key, PyNone, {key}, TTLCache_set(ttl_cache, now, key, value))

TTLInvalidate ==
    \E key \in TTLKeys :
        TTLDone("invalidate", key, PyNone, {}, TTLCache_invalidate(ttl_cache, key))

TTLInvalidatePattern ==
    \E pattern \in TTLPatterns :
        \E r \in {TTLCache_invalidate_pattern(ttl_cache, pattern)} :
            TTLDone("invalidate_pattern", pattern, r.ret, {}, r.self)

TTLClear == TTLDone("clear", "", PyNone, {}, TTLCache_clear(ttl_cache))

\* time passes between two operations
TTLTick ==
    /\ now < MaxTime
    /\ now' = now + 1
    /\ UNCHANGED <<_cache, heap, remote, call, normVars, valVars, thrVars, agentVars, ttlVars>>

TTLNext ==
    \/ TTLGet
    \/ TTLSet
    \/ TTLInvalidate
    \/ TTLInvalidatePattern
    \/ TTLClear
    \/ TTLTick

SpecTTL == TTLInit /\ [][TTLNext]_vars

(***************************************************************************)
(* Properties                                                              *)
(***************************************************************************)
Keys(kv) == {kv[n].key : n \in 1..Len(kv)}

StartsWith(str, prefix) == Len(str) >= Len(prefix) /\ SubSeq(str, 1, Len(prefix)) = prefix

\* msg is an error about the field `name`
IsErrorFor(msg, name) ==
    \/ msg = "Unknown field: " \o name
    \/ StartsWith(msg, "Field '" \o name \o "'")

HasErrorFor(errors, name) == \E n \in 1..Len(errors) : IsErrorFor(errors[n], name)

\* the schema the remote defines for a model right now
RemoteSchema(m) == _parse_fields(m, FieldsData(m, remote), now)

IsReadonlyIn(schema, name) == HasField(schema, name) /\ FieldOf(schema, name).readonly

\* C1 (as stated): in every state of the cache, also when the metadata fetch fails, a field
\* whose definition is readonly is never a key of the values validate_and_convert accepts.
C1_ReadonlyNeverAccepted ==
    call.op = "validate_and_convert" =>
        \A name \in Keys(call.validated) : ~IsReadonlyIn(RemoteSchema(call.model), name)

\* C1 (as amended): whenever the schema lookup of validate_and_convert succeeds (entry
\* fresh, or expired or invalidated and fetched again), every key of the accepted values is
\* a field of the schema handed to the validator that is not readonly in it.
C1_ReadonlyNeverAcceptedWhenSchemaLoads ==
    call.op = "validate_and_convert" /\ call.lookup_exc = "" =>
        \A name \in Keys(call.validated) :
            HasField(heap[call.ret], name) /\ ~FieldOf(heap[call.ret], name).readonly

\* a validation on a freshly fetched schema rejected a readonly field and accepted another
C1_Witness ==
    /\ call.op = "validate_and_convert"
    /\ call.lookup_exc = ""
    /\ call.fetched
    /\ \E name \in Keys(call.values.kv) :
           IsReadonlyIn(heap[call.ret], name) /\ HasErrorFor(call.errors, name)
    /\ Len(call.validated) > 0

IsLeafShape(e) == IsListOrTuple(e) /\ Len(e.items) = 3

\* C2: every three-element condition in the list _normalize_domain_filters returns carries
\* an operator of VALID_ODOO_OPERATORS.
C2_OnlyValidOperators ==
    normalized.called /\ normalized.exc = "" =>
        \A n \in 1..Len(normalized.out) :
            IsLeafShape(normalized.out[n]) =>
                OpIn(normalized.out[n].items[2], VALID_ODOO_OPERATORS)

\* C3: when the schema loads and validate_and_convert returns, every field name of the
\* input is either a key of the accepted values or the subject of an error, never both and
\* never neither; an unknown field has an "Unknown field" error and is not accepted; every
\* accepted key is a key of the input.
C3_InputPartitioned ==
    vresult.called /\ vargs.lookup.exc = "" /\ vresult.exc = "" =>
        /\ \A name \in Keys(vargs.values.kv) :
               (name \in Keys(vresult.validated)) # HasErrorFor(vresult.errors, name)
        /\ \A name \in Keys(vargs.values.kv) :
               ~HasField(vargs.lookup.schema, name) =>
                   /\ \E n \in 1..Len(vresult.errors) :
                          vresult.errors[n] = "Unknown field: " \o name
                   /\ name \notin Keys(vresult.validated)
        /\ Keys(vresult.validated) \subseteq Keys(vargs.values.kv)

\* a payload with an unknown field and a convertible one: one error, one accepted value
C3_Witness ==
    /\ vresult.called
    /\ vargs.lookup.exc = ""
    /\ vresult.exc = ""
    /\ "unknown_xyz" \in Keys(vargs.values.kv)
    /\ HasErrorFor(vresult.errors, "unknown_xyz")
    /\ Keys(vresult.validated) = {"f"}

\* C4: validate_and_convert never raises, whatever the field kind and the raw value.
C4_ValidateNeverRaises == vresult.called => vresult.exc = ""

\* C5: when get_model_schema fails during validate_and_convert, the call does not raise and
\* returns the input mapping unchanged with an empty error list.
C5_PassThroughOnLookupFailure ==
    call.op = "validate_and_convert" /\ call.lookup_exc # "" =>
        /\ call.exc = ""
        /\ call.validated = call.values.kv
        /\ call.errors = << >>

\* the fetch failed for a model whose cache entry exists (it has expired)
C5_Witness ==
    /\ call.op = "validate_and_convert"
    /\ call.lookup_exc # ""
    /\ _cache[call.model] # 0
    /\ Len(call.validated) > 0

\* C6: _normalize_domain_filters never raises, whatever the raw filters.
C6_NormalizeNeverRaises == normalized.called => normalized.exc = ""

\* C7: get_model_schema calls the remote iff force_reload is set, or the cache has no entry
\* for the model, or the entry's age has reached the TTL; otherwise it returns the cached
\* object and changes nothing; after a successful fetch the cache maps the model to a new
\* object holding the fetched fields, stamped with the time of the fetch.
C7_FetchIffForcedAbsentOrExpired ==
    [][call.op = "none" /\ call'.op = "get_model_schema" =>
          LET m == call'.model
          IN /\ call'.fetched <=>
                    \/ call'.force_reload
                    \/ _cache[m] = 0
                    \/ now - heap[_cache[m]].loaded_at >= cache_ttl
             /\ ~call'.fetched =>
                    /\ call'.exc = ""
                    /\ call'.ret = _cache[m]
                    /\ _cache' = _cache
                    /\ heap' = heap
             /\ call'.fetched /\ call'.exc = "" =>
                    /\ call'.ret > Len(heap)
                    /\ _cache' = [_cache EXCEPT ![m] = call'.ret]
                    /\ heap'[call'.ret] = _parse_fields(m, FieldsData(m, remote), now)]_vars

\* a call without force_reload fetched again while an object of the model has just expired
C7_Witness ==
    /\ call.op = "get_model_schema"
    /\ ~call.force_reload
    /\ call.fetched
    /\ call.exc = ""
    /\ \E id \in 1..Len(heap) :
           /\ id # call.ret
           /\ heap[id].model = call.model
           /\ now - heap[id].loaded_at = cache_ttl

\* C8: when the fetch inside get_model_schema fails, the call raises and the cache map and
\* the schema objects are exactly as before the call.
C8_NothingCachedOnFailure ==
    [][call.op = "none" /\ call'.op = "get_model_schema" /\ call'.exc # "" =>
          _cache' = _cache /\ heap' = heap]_vars

\* a fetch failed while both models had an entry
C8_Witness ==
    /\ call.op = "get_model_schema"
    /\ call.exc # ""
    /\ call.fetched
    /\ \A m \in Models : _cache[m] # 0

\* C9: with concurrent get_model_schema calls for one model, every call that returns hands
\* out a schema whose fields are those of an answer the remote has given, a call raises only
\* if its own fetch failed, and once all calls have finished the cache holds the object of
\* the last store.
C9_ConcurrentMisses ==
    /\ \A t \in Threads :
           thr[t].pc = "done" /\ thr[t].exc = "" =>
               /\ thr[t].ret \in 1..Len(heap)
               /\ \E v \in RemoteVersions :
                      /\ <<thr[t].model, v>> \in served
                      /\ heap[thr[t].ret].fields
                             = _parse_fields(thr[t].model, FieldsData(thr[t].model, v), 0).fields
    /\ \A t \in Threads : thr[t].pc = "done" /\ thr[t].exc # "" => thr[t].fetch = "failed"
    /\ (\A t \in Threads : thr[t].pc \in {"idle", "done"}) =>
           \A m \in Models : lastStore[m] # 0 => _cache[m] = lastStore[m]

\* both threads missed, fetched different revisions and returned different objects
C9_Witness ==
    /\ \A t \in Threads : thr[t].pc = "done" /\ thr[t].fetch = "ok" /\ ~thr[t].force_reload
    /\ thr[1].model = thr[2].model
    /\ thr[1].ret # thr[2].ret
    /\ heap[thr[1].ret].fields # heap[thr[2].ret].fields
    /\ _cache[thr[1].model] = lastStore[thr[1].model]

\* C10: a schema object never changes once created; a refresh makes the cache point to a
\* new object.
C10_SchemaObjectsImmutable ==
    [][/\ Len(heap') >= Len(heap)
       /\ \A id \in 1..Len(heap) : heap'[id] = heap[id]
       /\ \A m \in Models :
              _cache'[m] \notin {0, _cache[m]} => _cache'[m] > Len(heap)]_vars

\* a reader formats the object it was handed before the entry was refreshed
C10_Witness ==
    /\ call.op = "format_for_prompt"
    /\ _cache[call.model] \notin {0, call.ret}
    /\ heap[call.ret] # heap[_cache[call.model]]

IsCombinator(e) == IsStr(e) /\ e.s \in {"&", "|", "!"}

\* C13: every element of the list _normalize_domain_filters returns is a combinator token
\* or a three-element leaf; anything else in the input is dropped.
C13_OnlyTokensAndLeaves ==
    normalized.called /\ normalized.exc = "" =>
        \A n \in 1..Len(normalized.out) :
            IsCombinator(normalized.out[n]) \/ IsLeafShape(normalized.out[n])

\* reading one more element to the left of `have` complete sub-expressions: the number of
\* complete sub-expressions then, -1 if a combinator lacks an operand
TermsWith(e, have) ==
    IF ~IsCombinator(e) THEN have + 1
    ELSE IF e.s = "!" THEN (IF have >= 1 THEN have ELSE -1)
    ELSE IF have >= 2 THEN have - 1 ELSE -1

RECURSIVE PrefixTerms(_, _, _)
PrefixTerms(seq, n, have) ==
    IF n = 0 \/ have < 0 THEN have ELSE PrefixTerms(seq, n - 1, TermsWith(seq[n], have))

\* seq reads as a filter in prefix notation, top-level terms being joined by an implicit AND
WellFormedPrefix(seq) == PrefixTerms(seq, Len(seq), 0) >= 0

\* a three-element list with a string field name and a string operator
IsStringLeaf(e) ==
    /\ e.k = "list"
    /\ Len(e.items) = 3
    /\ IsStr(e.items[1])
    /\ IsStr(e.items[2])

\* C14: for a well-formed prefix filter of combinators and leaves, whatever the operators of
\* the leaves, the list _normalize_domain_filters returns is a well-formed prefix filter.
C14_OutputWellFormed ==
    (/\ normalized.called
     /\ normalized.exc = ""
     /\ filters.k = "list"
     /\ \A n \in 1..Len(filters.items) :
            IsCombinator(filters.items[n]) \/ IsStringLeaf(filters.items[n])
     /\ WellFormedPrefix(filters.items))
    => WellFormedPrefix(normalized.out)

\* a combinator token, or a leaf with a string field name and an accepted operator
IsValidElement(e) ==
    \/ IsCombinator(e)
    \/ /\ IsLeafShape(e)
       /\ IsStr(e.items[1])
       /\ OpIn(e.items[2], VALID_ODOO_OPERATORS)

AlreadyValid(f) ==
    /\ f.k = "list"
    /\ \A n \in 1..Len(f.items) : IsValidElement(f.items[n])

CondField(item) ==
    IF item.k = "dict"
    THEN PyOr(PyOr(DictGet(item, "field"), DictGet(item, "name")), DictGet(item, "column"))
    ELSE IF IsLeafShape(item) THEN item.items[1] ELSE PyNone

CondOperator(item) ==
    IF item.k = "dict"
    THEN PyOr(PyOr(DictGet(item, "operator"), DictGet(item, "op")), PyStr("="))
    ELSE item.items[2]

CondValue(item) == IF item.k = "dict" THEN DictGet(item, "value") ELSE item.items[3]

\* a condition on a named field: a three-element leaf, or a mapping with a field and a value
IsCondition(item) ==
    /\ IsStr(CondField(item))
    /\ \/ IsLeafShape(item)
       \/ item.k = "dict" /\ CondField(item).s # "" /\ ~IsNone(CondValue(item))

\* value parses as an integer: a digit string (with sign, blanks, underscores) or a number
ParsesAsInteger(value) == PyIntConv(value).exc = ""

IsYearCondition(item) ==
    /\ IsCondition(item)
    /\ OpIn(CondOperator(item), {"year", "YEAR"})
    /\ ParsesAsInteger(CondValue(item))

YearRange(field, Y) ==
    <<PyStr("&"),
      PyList(<<field, PyStr(">="), PyStr(ToString(Y) \o "-01-01")>>),
      PyList(<<field, PyStr("<"), PyStr(ToString(Y + 1) \o "-01-01")>>)>>

YearRangeOf(item) == YearRange(CondField(item), PyIntConv(CondValue(item)).n)

\* C16: a year condition whose value parses as an integer Y, given as a leaf or as a mapping,
\* is replaced by '&', (field, '>=', 'Y-01-01'), (field, '<', '(Y+1)-01-01'), in this order.
C16_YearExpandsToRange ==
    normalized.called /\ filters.k = "list" =>
        /\ Len(filters.items) = 1 /\ IsYearCondition(filters.items[1]) =>
               normalized.exc = "" /\ normalized.out = YearRangeOf(filters.items[1])
        /\ \A n \in 1..Len(filters.items) :
               IsYearCondition(filters.items[n]) /\ normalized.exc = "" =>
                   \E p \in 1..Len(normalized.out) :
                       /\ p + 2 <= Len(normalized.out)
                       /\ SubSeq(normalized.out, p, p + 2) = YearRangeOf(filters.items[n])
                       /\ n = 1 => p = 1
                       /\ n = Len(filters.items) => p + 2 = Len(normalized.out)

\* a year condition given as a mapping follows another element and is expanded after it
C16_Witness ==
    /\ normalized.called
    /\ normalized.exc = ""
    /\ filters.k = "list"
    /\ Len(filters.items) = 2
    /\ filters.items[2].k = "dict"
    /\ IsYearCondition(filters.items[2])
    /\ Len(normalized.out) = 4
    /\ normalized.out[2] = PyStr("&")

\* a leaf on a string field that operator repair is to drop: a year condition whose value
\* does not parse, a month condition, or an operator neither accepted nor rewritten
IsDroppedLeaf(item) ==
    /\ IsLeafShape(item)
    /\ IsStr(item.items[1])
    /\ ~OpIn(item.items[2], VALID_ODOO_OPERATORS)
    /\ ~OpIn(item.items[2], {"contains", "CONTAINS", "starts_with", "startswith",
                             "STARTS_WITH", "ends_with", "endswith", "ENDS_WITH"})
    /\ OpIn(item.items[2], {"year", "YEAR"}) => ~ParsesAsInteger(item.items[3])

\* C17: operator repair emits nothing for a year condition whose value does not parse as an
\* integer, for a month condition and for an operator that is neither accepted nor
\* rewritten; the rest of the list is kept.
C17_UnrepairableLeafDropped ==
    normalized.called /\ filters.k = "list" =>
        /\ Len(filters.items) = 1 /\ IsDroppedLeaf(filters.items[1]) =>
               normalized.exc = "" /\ normalized.out = << >>
        /\ (/\ Len(filters.items) = 2
            /\ IsDroppedLeaf(filters.items[1])
            /\ IsValidElement(filters.items[2])) =>
               /\ normalized.exc = ""
               /\ normalized.out = <<IF IsCombinator(filters.items[2]) THEN filters.items[2]
                                      ELSE PyList(filters.items[2].items)>>

\* the value given for the field "f" in the call, None when the payload has no such key
GivenFor(name) == DictGet(vargs.values, name)

\* the call ran on a loaded schema in which `name` is a writable field of one of the kinds
WritesField(name, kinds) ==
    /\ vresult.called
    /\ vargs.lookup.exc = ""
    /\ HasField(vargs.lookup.schema, name)
    /\ FieldOf(vargs.lookup.schema, name).type \in kinds
    /\ ~FieldOf(vargs.lookup.schema, name).readonly
    /\ name \in Keys(vargs.values.kv)

\* the call returned and accepted `val` for the field, with no error about it
Accepted(name, val) ==
    /\ vresult.exc = ""
    /\ \E n \in 1..Len(vresult.validated) :
           vresult.validated[n].key = name /\ vresult.validated[n].val = val
    /\ ~HasErrorFor(vresult.errors, name)

\* the positions of the choices whose label is v, ignoring case
LabelMatches(selection, v) ==
    {n \in 1..Len(selection) : Lower(selection[n][2]) = Lower(v)}

C19_DateFormatsAgree ==
    WritesField("f", {"date"}) =>
        \A D \in Dates, n \in 1..Len(DATE_FORMATS) :
            GivenFor("f") = PyStr(Strftime(D, DATE_FORMATS[n])) =>
                Accepted("f", PyStr(Strftime(D, "%Y-%m-%d")))

\* an identifier: a bare integer, a string of digits or an (id, label) pair
IsIdentifier(v) ==
    \/ v.k = "int"
    \/ IsStr(v) /\ AllDigits(v.s)
    \/ /\ IsListOrTuple(v)
       /\ Len(v.items) = 2
       /\ v.items[1].k = "int"
       /\ IsStr(v.items[2])

IdentifierOf(v) ==
    IF v.k = "int" THEN v
    ELSE IF IsStr(v) THEN PyInt(DigitsVal(v.s))
    ELSE v.items[1]

\* C20: for a multi-reference field, a list of identifiers, each a bare integer, a numeric
\* string or an (id, label) pair at any position, is converted to the one command
\* (6, 0, ids) with the identifiers as integers in input order.
C20_IdListBecomesReplaceCommand ==
    WritesField("f", {"many2many", "one2many"}) /\ GivenFor("f").k = "list" =>
        LET given == GivenFor("f").items
        IN (\A n \in 1..Len(given) : IsIdentifier(given[n])) =>
               Accepted("f", PyList(<<PyTuple(<<PyInt(6), PyInt(0),
                   PyList([n \in 1..Len(given) |-> IdentifierOf(given[n])])>>)>>))

\* the remote methods that only read
ReadMethods == {"search_count", "search_read", "get_models", "fields_get"}

Issues(calls, methods) == \E n \in 1..Len(calls) : calls[n] \in methods

\* C11: in every step, process_message issues no mutating remote call; a mutating call is
\* issued by execute_confirmed_action only, on a response of type confirmation_required
\* that the caller confirmed: in a REST request, the response process_message gave to that
\* request, which carries confirm; in the chat, the pending action, which is cleared, on a
\* message taken for a yes.  The pending action is only ever set to a response of type
\* confirmation_required that process_message has just given.
C11_MutationsOnlyAfterConfirmation ==
    [][/\ \A n \in 1..Len(turn'.calls) : turn'.calls[n] \in ReadMethods
       /\ turn'.result.calls # << >> => turn'.executed
       /\ turn'.executed =>
              /\ turn'.confirm
              /\ turn'.action_data.type = "confirmation_required"
              /\ \/ /\ turn'.ui = "rest"
                    /\ turn'.processed
                    /\ turn'.response = turn'.action_data
                 \/ /\ turn'.ui = "chat"
                    /\ handle_confirmation_command(turn'.user_input) = "True"
                    /\ pending_action = turn'.action_data
                    /\ pending_action' = NoResponse
       /\ pending_action' # NoResponse /\ pending_action' # pending_action =>
              /\ turn'.processed
              /\ turn'.response = pending_action'
              /\ pending_action'.type = "confirmation_required"]_vars

\* an update was confirmed in the chat and written to the remote
C11_Witness ==
    /\ turn.executed
    /\ turn.ui = "chat"
    /\ turn.action_data.operation = "update"
    /\ turn.result.calls = <<"write">>
    /\ turn.result.success

\* C12: while read_only_mode is on, process_message answers a CREATE, UPDATE or DELETE
\* intent with a response of type error, and neither process_message nor
\* execute_confirmed_action issues a create, write or unlink call.
C12_ReadOnlyBlocksWrites ==
    read_only_mode =>
        /\ turn.processed /\ turn.intent \in {"CREATE", "UPDATE", "DELETE"} =>
               turn.response.type = "error"
        /\ ~Issues(turn.calls, {"create", "write", "unlink"})
        /\ ~Issues(turn.result.calls, {"create", "write", "unlink"})

\* a delete request was answered with an error in read-only mode
C12_Witness ==
    /\ read_only_mode
    /\ turn.processed
    /\ turn.intent = "DELETE"
    /\ turn.response.type = "error"
    /\ pending_action = NoResponse

\* an entry that int() refuses: None, a non-numeric string, or a pair whose first element
\* is a non-numeric string
IsUnparseable(v) ==
    \/ IsNone(v)
    \/ IsStr(v) /\ IntCall(v).exc # ""
    \/ /\ IsListOrTuple(v)
       /\ Len(v.items) = 2
       /\ IsStr(v.items[1])
       /\ IntCall(v.items[1]).exc # ""

\* the identifiers of a list, unparseable entries left out
RemainingIds(given) ==
    LET kept == SelectSeq(given, IsIdentifier)
    IN PyList([n \in 1..Len(kept) |-> IdentifierOf(kept[n])])

\* C21: for a multi-reference field, a list of identifiers in which some entries cannot be
\* parsed to an integer is accepted with the one command (6, 0, ids) holding the remaining
\* identifiers in order; the field is not rejected and the call does not raise.
C21_UnparseableEntriesSkipped ==
    WritesField("f", {"many2many", "one2many"}) /\ GivenFor("f").k = "list" =>
        LET given == GivenFor("f").items
        IN (/\ \A n \in 1..Len(given) : IsIdentifier(given[n]) \/ IsUnparseable(given[n])
            /\ \E n \in 1..Len(given) : IsUnparseable(given[n])) =>
               Accepted("f", PyList(<<PyTuple(<<PyInt(6), PyInt(0), RemainingIds(given)>>)>>))

\* C22: for a multi-reference field, validate_and_convert converts a None value to the
\* clear-all command [(5, 0, 0)] in the accepted values.
C22_NullClearsAll ==
    WritesField("f", {"many2many", "one2many"}) /\ IsNone(GivenFor("f")) =>
        Accepted("f", PyList(<<PyTuple(<<PyInt(5), PyInt(0), PyInt(0)>>)>>))

\* C23: the operation does not influence the result of validate_and_convert: on the same
\* schema lookup and input mapping the call returns, for every operation, the accepted
\* values and errors it returns for this one (or raises alike), and no error of a create
\* call names a required field that is missing from the payload.
C23_OperationIrrelevant ==
    vresult.called =>
        /\ \A operation \in Operations :
               \E other \in {validate_and_convert(vargs.lookup, vargs.values, operation)} :
                   /\ other.exc = vresult.exc
                   /\ other.validated = vresult.validated
                   /\ other.errors = vresult.errors
        /\ \A n \in 1..Len(vresult.logged) : ~HasErrorFor(vresult.errors, vresult.logged[n])

\* a create call on a payload without the required field "f": logged, no error
C23_Witness ==
    /\ vresult.called
    /\ vargs.operation = "create"
    /\ vargs.lookup.exc = ""
    /\ "f" \notin Keys(vargs.values.kv)
    /\ vresult.logged = <<"f">>
    /\ vresult.validated = <<KV("g", PyStr("Acme"))>>
    /\ vresult.errors = << >>

\* a single condition given flat, not wrapped in a list: ['field', 'op', value]
IsFlatCondition(f) ==
    /\ f.k = "list"
    /\ Len(f.items) = 3
    /\ IsStr(f.items[1])
    /\ ~IsCombinator(f.items[1])
    /\ OpIn(f.items[2], VALID_ODOO_OPERATORS)

\* C24: when the raw filters value is a single condition not wrapped in a list,
\* ['field', 'op', value], _normalize_domain_filters wraps it and returns the one-condition
\* domain [['field', 'op', value]].
C24_FlatConditionWrapped ==
    normalized.called /\ IsFlatCondition(filters) =>
        normalized.exc = "" /\ normalized.out = <<PyList(filters.items)>>

\* C28: _normalize_domain_filters is idempotent: on every input on which it returns,
\* applying it to its own result returns that result again.
C28_NormalizeIdempotent ==
    normalized.called /\ normalized.exc = "" =>
        \E again \in {_normalize_domain_filters(PyList(normalized.out))} :
            again.exc = "" /\ again.out = normalized.out

\* C25: a TTLCache with max_size N >= 1 never holds more than N entries; a set of a new key
\* on a full cache removes exactly the least recently used key, where a get hit and a set
\* make a key the most recently used; a set of a key already present removes nothing and
\* leaves the size as it was.
C25_BoundedWithLRUEviction ==
    /\ [](Len(ttl_cache._cache) <= ttl_cache.max_size)
    /\ [][ttl_call'.op = "set" /\ now' = now =>
              LET before == KeysOf(ttl_cache._cache)
                  after == KeysOf(ttl_cache'._cache)
                  key == ttl_call'.key
              IN /\ key \in after
                 /\ IF key \in before
                    THEN after = before /\ Len(ttl_cache'._cache) = Len(ttl_cache._cache)
                    ELSE IF Len(ttl_cache._cache) = ttl_cache.max_size
                    THEN after = (before \ {recency[1]}) \cup {key}
                    ELSE after = before \cup {key}]_vars

\* set a, set ab, get a, set b on a cache of two entries: ab, not a, was evicted
C25_Witness ==
    /\ ttl_cache.max_size = 2
    /\ ttl_call.op = "set"
    /\ ttl_call.key = "b"
    /\ ttl_call.removed = {"ab"}
    /\ ttl_cache.hits = 1
    /\ recency = <<"a", "b">>
    /\ [n \in 1..Len(ttl_cache._cache) |-> ttl_cache._cache[n].key] = <<"a", "b">>

\* execute_confirmed_action ran on an update that names a model, a record and values
UpdateExecuted ==
    /\ turn.executed
    /\ turn.action_data.operation = "update"
    /\ turn.action_data.model # ""
    /\ turn.action_data.record_id # 0
    /\ Truthy(turn.action_data.values)

\* C26: execute_confirmed_action for an update with a model, a record_id and non-empty
\* values reports success and issues one remote call, write on that model, whose one
\* argument is the list [[record_id], values].
C26_UpdateWritesIdsAndValues ==
    UpdateExecuted =>
        /\ turn.result.success
        /\ Len(turn.result.sent) = 1
        /\ turn.result.sent[1].model = turn.action_data.model
        /\ turn.result.sent[1].method = "write"
        /\ \E values \in {turn.action_data.values, PyDict(turn.validation.validated)} :
               turn.result.sent[1].args =
                   <<PyList(<<PyList(<<PyInt(turn.action_data.record_id)>>), values>>)>>

\* execute_confirmed_action ran on a create or an update whose values it validated
ValidatedExecuted ==
    /\ turn.executed
    /\ turn.action_data.operation \in {"create", "update"}
    /\ turn.validation.called
    /\ turn.validation.exc = ""

\* C27: in execute_confirmed_action for create or update, when validate_and_convert reports
\* an error no create or write call is issued and the result has success false with the
\* list of the validation errors; when it reports none, the call that is issued carries the
\* converted values.
C27_NoWriteOnValidationError ==
    ValidatedExecuted =>
        IF Len(turn.validation.errors) > 0
        THEN /\ turn.result.sent = << >>
             /\ ~Issues(turn.result.calls, {"create", "write"})
             /\ ~turn.result.success
             /\ turn.result.validation_errors = turn.validation.errors
        ELSE \A n \in 1..Len(turn.result.sent) :
                 turn.result.sent[n].args[Len(turn.result.sent[n].args)]
                     \in {PyDict(turn.validation.validated),
                          PyList(<<PyDict(turn.validation.validated)>>)}

\* an update of the readonly field create_date was confirmed and refused before any call
C27_Witness ==
    /\ ValidatedExecuted
    /\ turn.action_data.operation = "update"
    /\ turn.action_data.values = PyDict(<<KV("create_date", S("2025-01-02"))>>)
    /\ turn.validation.validated = << >>
    /\ turn.result.validation_errors = <<"Field 'create_date' is readonly">>
    /\ turn.result.sent = << >>
    /\ ~turn.result.success

\* C29: in the chat session, execute_confirmed_action runs only on the pending action, on
\* a message taken for a yes, and the pending action is cleared before the call, so that a
\* stored action is executed at most once; a message taken for a no clears the pending
\* action and executes nothing; a yes received when nothing is pending executes nothing.
C29_PendingExecutedAtMostOnce ==
    [][turn'.ui = "chat" =>
           /\ turn'.executed =>
                  /\ pending_action # NoResponse
                  /\ turn'.action_data = pending_action
                  /\ turn'.user_input \in Confirming
                  /\ turn'.session_at_call = NoResponse
                  /\ pending_action' = NoResponse
           /\ pending_action # NoResponse /\ turn'.user_input \in Cancelling =>
                  /\ ~turn'.executed
                  /\ turn'.result.sent = << >>
                  /\ pending_action' = NoResponse
           /\ pending_action = NoResponse =>
                  /\ ~turn'.executed
                  /\ turn'.result.sent = << >>]_vars

\* a delete was confirmed in the chat: it ran and nothing is pending any more
C29_Witness ==
    /\ turn.ui = "chat"
    /\ turn.executed
    /\ turn.action_data.operation = "delete"
    /\ turn.result.calls = <<"unlink">>
    /\ turn.session_at_call = NoResponse
    /\ pending_action = NoResponse

\* C30: with get_model_schema and invalidate calls interleaved in any way on one cache, a
\* get_model_schema call raises only when its own remote fetch failed; it never raises
\* because the entry it found present and fresh was removed before it read it.
C30_LookupFailsOnlyOnFetchFailure ==
    \A t \in Threads :
        thr[t].pc = "done" /\ thr[t].exc # "" =>
            thr[t].exc = "Exception" /\ thr[t].fetch = "failed"

====
